---- MODULE Spec2Model ----
(***************************************************************************)
(* Matchmaking core of the anonymous-chat server: the SearchService        *)
(* (startSearch, cancelSearch, findMatches, selectBestMatch, createMatch,  *)
(* the cached search statistics) and the part of the WebSocketManager that *)
(* drives it (handleSearchStart, handleSearchCancel, sendToUser).          *)
(*                                                                         *)
(* Every `await` of the source is a scheduling point.  A step of the model *)
(* is one Store operation together with the synchronous code that runs     *)
(* when it returns, up to the next Store operation the handler issues.     *)
(***************************************************************************)
EXTENDS Integers, Sequences, FiniteSets, TLC

\* ------------------------------------------------------------------ bounds
\* Search records inserted in one run of concurrent handlers.
MaxSearches == 2
\* Search records inserted in one run of a client that calls one at a time.
MaxSeqSearches == 3
\* Store writes of createMatch that are allowed to fail in one run.
MaxFailures == 1
\* search:cancel events handled in one run of concurrent handlers.
MaxCancels == 1
\* search:cancel events in one run of a client that calls one at a time.
MaxSeqCancels == 2
\* Deferred setTimeout(broadcastSearchStats) jobs queued at one time.
MaxDeferred == 1

\* --------------------------------------------------------------- universe
Users == {"u1", "u2", "u3"}
TelegramIdOf == [u \in Users |-> CASE u = "u1" -> "tg1" [] u = "u2" -> "tg2" [] OTHER -> "tg3"]

\* Authenticated sockets and the user each was authenticated as; u1 holds two
\* sessions.
SocketIds == {"s1", "s2", "s3", "s4"}
SocketUser == [s \in SocketIds |->
    CASE s = "s1" -> "u1" [] s = "s2" -> "u1" [] s = "s3" -> "u2" [] OTHER -> "u3"]

\* Handler invocations that can be in flight at the same time.
Tasks == {"t1", "t2"}

NoLocation == -1
NoMatch == [userId |-> "none", telegramId |-> "none", chatId |-> 0]
NoCache == [t |-> -1, m |-> -1, f |-> -1, matches24h |-> -1]
NoCounts == [t |-> -1, m |-> -1, f |-> -1]

\* Positions are metres along one meridian, so that the great-circle
\* distance of two positions is the absolute difference.
Abs(x) == IF x < 0 THEN -x ELSE x

\* The criteria a client may send with search:start (all pass the schema's
\* validators).  maxDistance 0 stands for "not supplied".
CriteriaA ==
    [gender |-> "male", age |-> 25, rating |-> 0, desiredGender |-> {"female"},
     desiredAgeMin |-> 20, desiredAgeMax |-> 30, minAcceptableRating |-> -1,
     useGeolocation |-> FALSE, location |-> NoLocation, maxDistance |-> 0]
CriteriaB ==
    [gender |-> "female", age |-> 24, rating |-> 2, desiredGender |-> {"male"},
     desiredAgeMin |-> 20, desiredAgeMax |-> 30, minAcceptableRating |-> -1,
     useGeolocation |-> FALSE, location |-> NoLocation, maxDistance |-> 0]
CriteriaC ==
    [gender |-> "female", age |-> 26, rating |-> 4, desiredGender |-> {"any"},
     desiredAgeMin |-> 18, desiredAgeMax |-> 100, minAcceptableRating |-> 3,
     useGeolocation |-> TRUE, location |-> 0, maxDistance |-> 1]
CriteriaD ==
    [gender |-> "male", age |-> 26, rating |-> 4, desiredGender |-> {"female", "male"},
     desiredAgeMin |-> 18, desiredAgeMax |-> 100, minAcceptableRating |-> -1,
     useGeolocation |-> TRUE, location |-> 500, maxDistance |-> 0]

\* The criteria each user sends: gender, age and rating are the user's own.
CriteriaOf == [u \in Users |->
    CASE u = "u1" -> {CriteriaA}
      [] u = "u2" -> {CriteriaB, CriteriaC}
      [] OTHER -> {CriteriaB, CriteriaD}]

\* The schema's default for maxDistance, also the fallback of findMatches.
DefaultMaxDistance == 10

\* ------------------------------------------------------------------ state
VARIABLES
    searches,        \* Store: the searches collection, in insertion order
    chats,           \* Store: the chats collection, in insertion order
    statsCache,      \* SearchService.statsCache.data (NoCache = null)
    cacheFresh,      \* Date.now() - statsCache.timestamp < CACHE_TTL
    updatingStats,   \* SearchService.updatingStats
    pendingUpdates,  \* SearchService.pendingUpdates
    bjobs,           \* broadcastSearchStats runs queued by setTimeout(.., 0)
    userSockets,     \* WebSocketManager.userSockets
    sent,            \* the events the last step emitted, as <<socket, event>>
    tasks,           \* the handler invocations in flight
    failures,        \* Store writes that failed so far
    cancels,         \* search:cancel events handled so far
    lastCalls        \* the last completed calls of a sequential client

vars == <<searches, chats, statsCache, cacheFresh, updatingStats, pendingUpdates,
          bjobs, userSockets, sent, tasks, failures, cancels, lastCalls>>

\* ---------------------------------------------- state of the other parts
VARIABLES
    debounceTimeout, \* SearchService.debounceTimeout: ms left, NoTimer when none is pending
    cacheAge,        \* Date.now() - statsCache.timestamp, capped at CACHE_TTL
    sinceEvent,      \* ms since the last stats update was requested, capped
    burstCasts,      \* search:stats broadcasts to the room in the current burst
    rooms,           \* socket.rooms of each session, kept by socket.io for recovery
    userRooms,       \* WebSocketManager.userRooms
    graceTimers,     \* the searchCancelTimeout timers created so far
    pendingSearchCancellations, \* user -> index of its timer in graceTimers, 0: no entry
    lookups,         \* getUserActiveSearch calls of disconnect handlers in flight
    clock,           \* time, in steps of GraceTickMs
    drops,           \* disconnects so far
    lostAt,          \* when each user's last session was lost, -1: never
    heldUnion,       \* the rooms a user's sessions held when the last of them was lost
    chatLog,         \* Store: messages, lastMessage, endedAt, endedBy of each chat
    chatFailures,    \* chatCircuitBreaker.failures
    ratings,         \* Store: the ratings collection, in insertion order
    userRating,      \* Store: stats.rating of each user, as <<sum, count>>
    rateOps,         \* the chat:rate handlers in flight
    dupKeyError,     \* Rating.create has met the unique index
    searchFailures,  \* searchCircuitBreaker.failures
    breaker,         \* a CircuitBreaker with the operations it guards
    probe,           \* findMatches and selectBestMatch called for searches[1]
    fullAge,         \* ms since getSearchStats last recomputed the cache, capped
    roomTimers,      \* the two-minute timers of the disconnect handlers
    chatOps,         \* the ChatService calls in flight, each with the document it read
    directory        \* Store: User.isActive, and the findByIdAndUpdate calls in flight

NoTimer == -1
asyncVars == <<roomTimers, chatOps, directory>>
restVars == <<chatLog, chatFailures, ratings, userRating, rateOps, dupKeyError,
             searchFailures, breaker, probe, fullAge, asyncVars>>

hubVars == <<rooms, userRooms, graceTimers, pendingSearchCancellations, lookups,
             clock, drops, lostAt, heldUnion>>
extVars == <<debounceTimeout, cacheAge, sinceEvent, burstCasts, hubVars, restVars>>
allVars == <<vars, extVars>>

\* The parts the search engine's runs leave at rest.
InitExt ==
    /\ debounceTimeout = NoTimer
    /\ cacheAge = 0
    /\ sinceEvent = 0
    /\ burstCasts = 0
    /\ rooms = [s \in SocketIds |-> {}]
    /\ userRooms = [u \in Users |-> {}]
    /\ graceTimers = << >>
    /\ pendingSearchCancellations = [u \in Users |-> 0]
    /\ lookups = << >>
    /\ clock = 0
    /\ drops = 0
    /\ lostAt = [u \in Users |-> -1]
    /\ heldUnion = [u \in Users |-> {}]
    /\ chatLog = << >>
    /\ chatFailures = 0
    /\ ratings = << >>
    /\ userRating = [u \in Users |-> <<0, 1>>]
    /\ rateOps = << >>
    /\ dupKeyError = FALSE
    /\ searchFailures = 0
    /\ breaker = [state |-> "CLOSED", failures |-> 0, lastFailureTime |-> 0,
                  halfOpenAttempts |-> 0, inflight |-> 0, last |-> "none"]
    /\ probe = [phase |-> "none", matches |-> << >>, best |-> 0]
    /\ fullAge = 0
    /\ roomTimers = << >>
    /\ chatOps = << >>
    /\ directory = [isActive |-> [u \in Users |-> TRUE], writes |-> << >>]

vars_but_sent == <<searches, chats, statsCache, cacheFresh, updatingStats,
                   pendingUpdates, bjobs, userSockets, tasks, failures, cancels,
                   lastCalls>>

NoCriteria == [gender |-> "none", age |-> 0, rating |-> 0, desiredGender |-> {},
               desiredAgeMin |-> 0, desiredAgeMax |-> 0, minAcceptableRating |-> 0,
               useGeolocation |-> FALSE, location |-> NoLocation, maxDistance |-> 0]

\* A handler invocation at rest.  op: the handler; sock: the socket it serves;
\* crit: the criteria of search:start; sid, bid: _id of the created search and
\* of the selected partner; cid: _id of the chat; upd1, upd2, rb1, rb2: the
\* four findByIdAndUpdate calls of createMatch; act: the action of the stats
\* update in progress; cnt: the counts read by getSearchStats; res: what
\* cancelSearch's findOneAndUpdate returned.
IdleTask == [pc |-> "idle", op |-> "none", sock |-> "none", crit |-> NoCriteria,
             sid |-> 0, bid |-> 0, cid |-> 0, upd1 |-> "none", upd2 |-> "none",
             rb1 |-> "none", rb2 |-> "none", act |-> "none", cnt |-> NoCounts,
             res |-> 0]

\* ------------------------------------------------------- Store operations
SearchIds(recs) == 1 .. Len(recs)

\* Search.findOne(filter): the first document, in insertion order, that
\* satisfies the filter; 0 when there is none.
FirstId(hits) ==
    IF hits = {} THEN 0 ELSE CHOOSE i \in hits : \A j \in hits : i <= j

IsSearchingOf(u, r) == r.userId = u /\ r.status = "searching"

\* Search.findOneAndUpdate({userId, status: 'searching'}, {status: 'cancelled'})
CancelSearching(recs, u) ==
    LET i == FirstId({k \in SearchIds(recs) : IsSearchingOf(u, recs[k])})
    IN  IF i = 0 THEN recs ELSE [recs EXCEPT ![i].status = "cancelled"]

\* The document startSearch hands to Search.create.
NewSearch(u, c) ==
    [userId |-> u, telegramId |-> TelegramIdOf[u], status |-> "searching",
     gender |-> c.gender, age |-> c.age, rating |-> c.rating,
     desiredGender |-> c.desiredGender,
     desiredAgeMin |-> c.desiredAgeMin, desiredAgeMax |-> c.desiredAgeMax,
     minAcceptableRating |-> c.minAcceptableRating,
     useGeolocation |-> c.useGeolocation,
     maxDistance |-> IF c.useGeolocation /\ c.maxDistance # 0
                     THEN c.maxDistance ELSE DefaultMaxDistance,
     location |-> IF c.useGeolocation THEN c.location ELSE NoLocation,
     matchedWith |-> NoMatch]

\* ------------------------------------------------------------ findMatches
DesiredSet(S) ==
    IF "any" \in S.desiredGender THEN {"male", "female"}
    ELSE S.desiredGender \cap {"male", "female"}

\* calculateDistance, in metres.
Distance(a, b) == Abs(a - b)


\* The filter without its geolocation clause.
MatchCriteriaNoGeo(S, P) ==
    /\ P.status = "searching"
    /\ P.userId # S.userId
    /\ P.gender \in DesiredSet(S)
    /\ P.desiredGender \cap {S.gender, "any"} # {}
    /\ P.age >= S.desiredAgeMin /\ P.age <= S.desiredAgeMax
    /\ P.desiredAgeMin <= S.age /\ P.desiredAgeMax >= S.age
    /\ (S.minAcceptableRating > -1 => P.rating >= S.minAcceptableRating)

\* The filter findMatches builds for search S, applied to document P.
MatchCriteria(S, P) ==
    /\ P.status = "searching"
    /\ P.userId # S.userId
    /\ P.gender \in DesiredSet(S)
    /\ P.desiredGender \cap {S.gender, "any"} # {}
    /\ P.age >= S.desiredAgeMin /\ P.age <= S.desiredAgeMax
    /\ P.desiredAgeMin <= S.age /\ P.desiredAgeMax >= S.age
    /\ (S.minAcceptableRating > -1 => P.rating >= S.minAcceptableRating)
    /\ (S.useGeolocation /\ S.location # NoLocation =>
            /\ P.useGeolocation
            /\ P.location # NoLocation
            /\ Distance(S.location, P.location) <= S.maxDistance * 1000)

\* A set of ids as the sequence ordered by Key, smallest first.
RECURSIVE OrderBy(_, _)
OrderBy(ids, key) ==
    IF ids = {} THEN << >>
    ELSE LET i == CHOOSE x \in ids : \A y \in ids : key[x] <= key[y]
         IN  <<i>> \o OrderBy(ids \ {i}, key)

\* Search.find(matchCriteria): $near returns the nearest first, any other
\* query returns the documents in insertion order.
FindMatches(S, recs) ==
    LET hits == {i \in SearchIds(recs) : MatchCriteria(S, recs[i])}
        Near == [i \in hits |->
                    Distance(S.location, recs[i].location) * (Len(recs) + 1) + i]
        Natural == [i \in hits |-> i]
    IN  IF S.useGeolocation /\ S.location # NoLocation
        THEN OrderBy(hits, Near) ELSE OrderBy(hits, Natural)

Max(a, b) == IF a >= b THEN a ELSE b

\* calculateMatchScore, in thousandths of a point (the geolocation term of
\* the source is 30 - metres / 1000).
CalculateMatchScore(S, P) ==
    1000 * Max(0, 40 - Abs(S.rating - P.rating) * 2)
    + 1000 * Max(0, 30 - Abs(S.age - P.age) * 2)
    + (IF /\ S.useGeolocation /\ P.useGeolocation
          /\ S.location # NoLocation /\ P.location # NoLocation
       THEN Max(0, 30000 - Distance(S.location, P.location)) ELSE 0)

\* matches.reduce(..., matches[0]): a later candidate replaces the best so
\* far only with a strictly greater score.
RECURSIVE ReduceBest(_, _, _, _)
ReduceBest(S, recs, best, rest) ==
    IF rest = << >> THEN best
    ELSE LET cur == Head(rest)
             nb == IF CalculateMatchScore(S, recs[cur]) > CalculateMatchScore(S, recs[best])
                   THEN cur ELSE best
         IN  ReduceBest(S, recs, nb, Tail(rest))

SelectBestMatch(S, matches, recs) == ReduceBest(S, recs, matches[1], matches)

\* ----------------------------------------------------------------- events
StatusEvent(st) ==
    [ev |-> "search:status", status |-> st, telegramId |-> "none",
     gender |-> "none", age |-> 0, chatId |-> 0]
ErrorEvent ==
    [ev |-> "error", status |-> "none", telegramId |-> "none",
     gender |-> "none", age |-> 0, chatId |-> 0]
\* The payload createMatch sends: the other record's telegramId, gender, age
\* and the chat.
MatchedEvent(other, chatId) ==
    [ev |-> "search:matched", status |-> "none", telegramId |-> other.telegramId,
     gender |-> other.gender, age |-> other.age, chatId |-> chatId]

\* socket.emit(event)
Emit(out, s, e) == out \cup {<<s, e>>}

\* WebSocketManager.sendToUser: every socket of the user, none when the user
\* has no entry in userSockets.
SendToUser(out, u, e) == out \cup {<<s, e>> : s \in userSockets[u]}

\* ------------------------------------------------------------------ stats
CountSearching(recs, genders) ==
    Cardinality({i \in SearchIds(recs) :
                    recs[i].status = "searching" /\ recs[i].gender \in genders})

\* The three countDocuments of getSearchStats.
ReadCounts(recs) ==
    [t |-> Cardinality({i \in SearchIds(recs) : recs[i].status = "searching"}),
     m |-> CountSearching(recs, {"male"}),
     f |-> CountSearching(recs, {"female"})]

\* countDocuments({status: 'matched', updatedAt >= one day ago})
CountMatched(recs) ==
    Cardinality({i \in SearchIds(recs) : recs[i].status = "matched"})

\* The snapshot getSearchStats stores in the cache.
FullStats(cnt, recs) ==
    [t |-> cnt.t, m |-> cnt.m, f |-> cnt.f, matches24h |-> CountMatched(recs)]

\* The cache test of getSearchStats and of updateAndBroadcastStats.
CacheUsable(cache, fresh) == cache # NoCache /\ fresh

\* Search.findOne({ userId }) ?.gender
GenderOfUser(recs, u) ==
    LET i == FirstId({k \in SearchIds(recs) : recs[k].userId = u})
    IN  IF i = 0 THEN "none" ELSE recs[i].gender


\* An incremental update whose 'cancel' forgets the gender counters.
ApplyDeltaTotalOnly(cache, action, gender) ==
    CASE action = "start" ->
            [cache EXCEPT !.t = @ + 1,
                          !.m = IF gender = "male" THEN @ + 1 ELSE @,
                          !.f = IF gender = "female" THEN @ + 1 ELSE @]
      [] action = "cancel" ->
            [cache EXCEPT !.t = Max(0, @ - 1)]
      [] OTHER ->
            [cache EXCEPT !.t = Max(0, @ - 2),
                          !.matches24h = @ + 1,
                          !.m = IF gender = "male" THEN Max(0, @ - 1) ELSE @,
                          !.f = IF gender = "female" THEN Max(0, @ - 1) ELSE @]

\* The incremental update of updateAndBroadcastStats.
ApplyDelta(cache, action, gender) ==
    CASE action = "start" ->
            [cache EXCEPT !.t = @ + 1,
                          !.m = IF gender = "male" THEN @ + 1 ELSE @,
                          !.f = IF gender = "female" THEN @ + 1 ELSE @]
      [] action = "cancel" ->
            [cache EXCEPT !.t = Max(0, @ - 1),
                          !.m = IF gender = "male" THEN Max(0, @ - 1) ELSE @,
                          !.f = IF gender = "female" THEN Max(0, @ - 1) ELSE @]
      [] OTHER ->
            [cache EXCEPT !.t = Max(0, @ - 2),
                          !.matches24h = @ + 1,
                          !.m = IF gender = "male" THEN Max(0, @ - 1) ELSE @,
                          !.f = IF gender = "female" THEN Max(0, @ - 1) ELSE @]

QueuedJob == [ph |-> "queued", cnt |-> NoCounts]

\* ------------------------------------------------- handler continuations
TaskUser(tk) == SocketUser[tk.sock]

\* The handler returns to the socket.  handleSearchStart reads the status of
\* the document startSearch created, which no later write refreshes;
\* handleSearchCancel answers only when a record was cancelled.
Return(t, tk, ib) ==
    /\ tasks' = [tasks EXCEPT ![t] = IdleTask]
    /\ sent' = IF tk.op = "start"
                THEN Emit(ib, tk.sock, StatusEvent("searching"))
                ELSE IF tk.res # 0
                     THEN Emit(ib, tk.sock, StatusEvent("cancelled"))
                     ELSE ib

\* updateAndBroadcastStats(action) up to its first await.  busy, pend, jobs
\* and usable are the values of updatingStats, pendingUpdates, bjobs and of
\* the cache test at the time of the call.  A call that finds an update
\* running sets the pending flag and returns (and so does the 'start' call
\* that follows a 'match' call).
CallStats(t, action, tk, ib, busy, pend, jobs, usable) ==
    IF busy
    THEN /\ updatingStats' = TRUE
         /\ pendingUpdates' = TRUE
         /\ bjobs' = jobs
         /\ Return(t, tk, ib)
    ELSE /\ updatingStats' = TRUE
         /\ pendingUpdates' = pend
         /\ bjobs' = jobs
         /\ tasks' = [tasks EXCEPT ![t] =
                [tk EXCEPT !.act = action,
                           !.pc = IF usable THEN "st_findone" ELSE "st_counts"]]
         /\ sent' = ib

\* The end of updateAndBroadcastStats after its broadcast: the flag is
\* released, a pending request becomes one deferred broadcast, and the caller
\* goes on (createMatch returns to startSearch, which calls 'start').
FinishStats(t, tk, ib, usable) ==
    LET jobs == IF pendingUpdates THEN Append(bjobs, QueuedJob) ELSE bjobs
    IN  /\ pendingUpdates => Len(bjobs) < MaxDeferred
        /\ IF tk.act = "match"
           THEN CallStats(t, "start", tk, ib, FALSE, FALSE, jobs, usable)
           ELSE /\ updatingStats' = FALSE
                /\ pendingUpdates' = FALSE
                /\ bjobs' = jobs
                /\ Return(t, [tk EXCEPT !.act = "none"], ib)

\* ------------------------------------------------ sequential client log
\* For a client that issues one call at a time: the call in progress (cur)
\* with the Store and the cache as they were when it was made, and the last
\* two completed calls (done) with the Store and the cache as they left
\* them.  full: the call recomputed the cache from the Store; paired: the
\* call selected a partner.
NotTracking == [on |-> FALSE, cur |-> << >>, done |-> << >>]

Track(t) ==
    LET old == tasks[t]
        new == tasks'[t]
        begun == [op |-> new.op, user |-> TaskUser(new), preCache |-> statsCache,
                  preRecs |-> searches, full |-> new.pc = "st_counts",
                  paired |-> FALSE]
        cur == IF old.pc = "idle" THEN begun
               ELSE [lastCalls.cur[1] EXCEPT
                        !.full = @ \/ new.pc = "st_counts",
                        !.paired = @ \/ new.pc = "chat"]
        ended == [op |-> cur.op, user |-> cur.user, preCache |-> cur.preCache,
                  preRecs |-> cur.preRecs, full |-> cur.full, paired |-> cur.paired,
                  postCache |-> statsCache', postRecs |-> searches']
    IN  IF ~lastCalls.on THEN lastCalls
        ELSE IF new.pc = "idle"
        THEN [lastCalls EXCEPT !.cur = << >>,
                               !.done = IF Len(@) = 2 THEN <<@[2], ended>>
                                        ELSE Append(@, ended)]
        ELSE [lastCalls EXCEPT !.cur = <<cur>>]

\* ------------------------------------------------------------------- Init
\* All four sockets have connected, nobody has searched yet and no
\* statistics have been computed.
InitStore ==
    /\ searches = << >>
    /\ chats = << >>
    /\ statsCache = NoCache
    /\ cacheFresh = FALSE
    /\ updatingStats = FALSE
    /\ pendingUpdates = FALSE
    /\ bjobs = << >>
    /\ userSockets = [u \in Users |-> {s \in SocketIds : SocketUser[s] = u}]
    /\ sent = {}
    /\ tasks = [t \in Tasks |-> IdleTask]
    /\ failures = 0
    /\ cancels = 0
    /\ InitExt

Init == InitStore /\ lastCalls = NotTracking

\* ---------------------------------------------------------- search:start
\* The bounds of a run.
CanInsert(max) ==
    Len(searches) + Cardinality({x \in Tasks : tasks[x].pc = "create"}) < max
CanCancel(max) == cancels < max

\* The slot an arriving event is handled in: the first one at rest.
FreeSlot(t) ==
    /\ tasks[t].pc = "idle"
    /\ t = "t1" \/ tasks["t1"].pc # "idle"

\* handleSearchStart -> startSearch, up to and including the cancellation of
\* the user's previous search.
CallStartSearch(t, s, c) ==
    /\ FreeSlot(t)
    /\ c \in CriteriaOf[SocketUser[s]]
    /\ s \in userSockets[SocketUser[s]]
    /\ searches' = CancelSearching(searches, SocketUser[s])
    /\ tasks' = [tasks EXCEPT ![t] =
            [IdleTask EXCEPT !.pc = "create", !.op = "start", !.sock = s, !.crit = c]]
    /\ UNCHANGED <<chats, statsCache, cacheFresh, updatingStats,
                   pendingUpdates, bjobs, userSockets, failures>>
    /\ sent' = {}
    /\ lastCalls' = Track(t)
    /\ UNCHANGED <<cancels, extVars>>

\* Search.create(searchData)
CreateSearch(t) ==
    /\ tasks[t].pc = "create"
    /\ searches' = Append(searches, NewSearch(TaskUser(tasks[t]), tasks[t].crit))
    /\ tasks' = [tasks EXCEPT ![t] =
            [@ EXCEPT !.pc = "find", !.sid = Len(searches) + 1, !.crit = NoCriteria]]
    /\ UNCHANGED <<chats, statsCache, cacheFresh, updatingStats,
                   pendingUpdates, bjobs, userSockets, failures>>
    /\ sent' = {}
    /\ lastCalls' = Track(t)
    /\ UNCHANGED <<cancels, extVars>>

\* findMatches and selectBestMatch; without a candidate startSearch goes on
\* to its 'start' stats update.
FindAndSelect(t) ==
    LET tk == tasks[t]
        matches == FindMatches(searches[tk.sid], searches)
    IN  /\ tk.pc = "find"
        /\ IF matches = << >>
           THEN CallStats(t, "start", tk, {}, updatingStats, pendingUpdates, bjobs,
                          CacheUsable(statsCache, cacheFresh))
           ELSE /\ tasks' = [tasks EXCEPT ![t] =
                        [tk EXCEPT !.pc = "chat",
                                   !.bid = SelectBestMatch(searches[tk.sid], matches, searches)]]
                /\ UNCHANGED <<updatingStats, pendingUpdates, bjobs>>
                /\ sent' = {}
        /\ UNCHANGED <<searches, chats, statsCache, cacheFresh, userSockets, failures>>
        /\ lastCalls' = Track(t)
        /\ UNCHANGED <<cancels, extVars>>

\* createMatch: Chat.create, after which both findByIdAndUpdate calls of the
\* Promise.all are issued.
CreateChat(t) ==
    LET tk == tasks[t]
    IN  /\ tk.pc = "chat"
        /\ chats' = Append(chats,
                [participants |-> <<searches[tk.sid].userId, searches[tk.bid].userId>>,
                 type |-> "anonymous", isActive |-> TRUE])
        /\ tasks' = [tasks EXCEPT ![t] =
                [tk EXCEPT !.pc = "update", !.cid = Len(chats) + 1,
                           !.upd1 = "pending", !.upd2 = "pending"]]
        /\ UNCHANGED <<searches, statsCache, cacheFresh, updatingStats,
                       pendingUpdates, bjobs, userSockets, failures>>
        /\ sent' = {}
        /\ lastCalls' = Track(t)
        /\ UNCHANGED <<cancels, extVars>>

\* findByIdAndUpdate(id, {status: 'matched', matchedWith: {other, chatId}}):
\* the write does not look at the document's current status.
SetMatched(recs, id, other, chatId) ==
    [recs EXCEPT ![id] = [@ EXCEPT !.status = "matched",
                                   !.matchedWith = [userId |-> recs[other].userId,
                                                    telegramId |-> recs[other].telegramId,
                                                    chatId |-> chatId]]]

\* findByIdAndUpdate(id, {status: 'searching', $unset: {matchedWith: 1}})
SetSearching(recs, id) ==
    [recs EXCEPT ![id] = [@ EXCEPT !.status = "searching", !.matchedWith = NoMatch]]

InFlight(tk) == "pending" \in {tk.upd1, tk.upd2, tk.rb1, tk.rb2}


\* Notifications that carry the addressee's own data instead of the partner's.
NotifyMatchedOwnData(ib, recs, tk) ==
    SendToUser(SendToUser(ib, recs[tk.sid].userId, MatchedEvent(recs[tk.sid], tk.cid)),
               recs[tk.bid].userId, MatchedEvent(recs[tk.bid], tk.cid))

\* The two search:matched notifications of createMatch.
NotifyMatched(ib, recs, tk) ==
    SendToUser(SendToUser(ib, recs[tk.sid].userId, MatchedEvent(recs[tk.bid], tk.cid)),
               recs[tk.bid].userId, MatchedEvent(recs[tk.sid], tk.cid))

\* What createMatch does when one of its matched-updates has returned: the
\* first rejection enters the catch block, which issues both rollback
\* writes; with both fulfilled it notifies the two users and calls the
\* 'match' stats update.  A write that returns after the Promise.all has
\* settled only lands in the Store.
AfterUpdate(t, tk) ==
    IF tk.pc = "update" /\ "failed" \in {tk.upd1, tk.upd2}
    THEN /\ tasks' = [tasks EXCEPT ![t] =
                [tk EXCEPT !.pc = "rollback", !.rb1 = "pending", !.rb2 = "pending"]]
         /\ UNCHANGED <<updatingStats, pendingUpdates, bjobs>>
         /\ sent' = {}
    ELSE IF tk.pc = "update" /\ tk.upd1 = "ok" /\ tk.upd2 = "ok"
    THEN CallStats(t, "match", tk, NotifyMatched({}, searches, tk), updatingStats,
                   pendingUpdates, bjobs, CacheUsable(statsCache, cacheFresh))
    ELSE /\ tasks' = [tasks EXCEPT ![t] =
                IF tk.pc = "drain" /\ ~InFlight(tk) THEN IdleTask ELSE tk]
         /\ UNCHANGED <<updatingStats, pendingUpdates, bjobs>>
         /\ sent' = {}

UpdateSearch1(t, ok) ==
    LET tk == tasks[t]
    IN  /\ tk.upd1 = "pending"
        /\ ok \/ failures < MaxFailures
        /\ searches' = IF ok THEN SetMatched(searches, tk.sid, tk.bid, tk.cid) ELSE searches
        /\ failures' = IF ok THEN failures ELSE failures + 1
        /\ AfterUpdate(t, [tk EXCEPT !.upd1 = IF ok THEN "ok" ELSE "failed"])
        /\ UNCHANGED <<chats, statsCache, cacheFresh, userSockets>>
        /\ lastCalls' = Track(t)
        /\ UNCHANGED <<cancels, extVars>>

UpdateSearch2(t, ok) ==
    LET tk == tasks[t]
    IN  /\ tk.upd2 = "pending"
        /\ ok \/ failures < MaxFailures
        /\ searches' = IF ok THEN SetMatched(searches, tk.bid, tk.sid, tk.cid) ELSE searches
        /\ failures' = IF ok THEN failures ELSE failures + 1
        /\ AfterUpdate(t, [tk EXCEPT !.upd2 = IF ok THEN "ok" ELSE "failed"])
        /\ UNCHANGED <<chats, statsCache, cacheFresh, userSockets>>
        /\ lastCalls' = Track(t)
        /\ UNCHANGED <<cancels, extVars>>

\* The catch block after a rollback write has returned: with both fulfilled,
\* or at the first rejection, createMatch rethrows, startSearch fails and the
\* circuit breaker's fallback answers the socket with an error.  The breaker
\* stays closed: fewer Store writes fail here than its failureThreshold.
AfterRollback(t, tk) ==
    IF tk.pc = "rollback" /\ ("failed" \in {tk.rb1, tk.rb2} \/ (tk.rb1 = "ok" /\ tk.rb2 = "ok"))
    THEN /\ tasks' = [tasks EXCEPT ![t] =
                IF InFlight(tk) THEN [tk EXCEPT !.pc = "drain"] ELSE IdleTask]
         /\ sent' = Emit({}, tk.sock, ErrorEvent)
    ELSE /\ tasks' = [tasks EXCEPT ![t] =
                IF tk.pc = "drain" /\ ~InFlight(tk) THEN IdleTask ELSE tk]
         /\ sent' = {}

Rollback1(t, ok) ==
    LET tk == tasks[t]
    IN  /\ tk.rb1 = "pending"
        /\ ok \/ failures < MaxFailures
        /\ searches' = IF ok THEN SetSearching(searches, tk.sid) ELSE searches
        /\ failures' = IF ok THEN failures ELSE failures + 1
        /\ AfterRollback(t, [tk EXCEPT !.rb1 = IF ok THEN "ok" ELSE "failed"])
        /\ UNCHANGED <<chats, statsCache, cacheFresh, updatingStats, pendingUpdates,
                       bjobs, userSockets>>
        /\ lastCalls' = Track(t)
        /\ UNCHANGED <<cancels, extVars>>

Rollback2(t, ok) ==
    LET tk == tasks[t]
    IN  /\ tk.rb2 = "pending"
        /\ ok \/ failures < MaxFailures
        /\ searches' = IF ok THEN SetSearching(searches, tk.bid) ELSE searches
        /\ failures' = IF ok THEN failures ELSE failures + 1
        /\ AfterRollback(t, [tk EXCEPT !.rb2 = IF ok THEN "ok" ELSE "failed"])
        /\ UNCHANGED <<chats, statsCache, cacheFresh, updatingStats, pendingUpdates,
                       bjobs, userSockets>>
        /\ lastCalls' = Track(t)
        /\ UNCHANGED <<cancels, extVars>>

\* ------------------------------------------- updateAndBroadcastStats
\* The fresh-cache branch once Search.findOne has returned: the delta is
\* applied to the cache as it is now and its timestamp renewed; the
\* broadcast that follows reads the cache, or recomputes it when the gender
\* was unknown and the cache has gone stale meanwhile.
StatsFindOne(t) ==
    LET tk == tasks[t]
        gender == GenderOfUser(searches, TaskUser(tk))
    IN  /\ tk.pc = "st_findone"
        /\ IF gender # "none"
           THEN /\ statsCache' = ApplyDelta(statsCache, tk.act, gender)
                /\ cacheFresh' = TRUE
                /\ FinishStats(t, tk, {}, TRUE)
           ELSE /\ UNCHANGED <<statsCache, cacheFresh>>
                /\ IF CacheUsable(statsCache, cacheFresh)
                   THEN FinishStats(t, tk, {}, TRUE)
                   ELSE /\ tasks' = [tasks EXCEPT ![t] = [tk EXCEPT !.pc = "st_counts"]]
                        /\ UNCHANGED <<updatingStats, pendingUpdates, bjobs>>
                        /\ sent' = {}
        /\ UNCHANGED <<searches, chats, userSockets, failures>>
        /\ lastCalls' = Track(t)
        /\ UNCHANGED <<cancels, extVars>>

\* getSearchStats on a missing or stale cache: the countDocuments calls.
StatsCounts(t) ==
    /\ tasks[t].pc = "st_counts"
    /\ tasks' = [tasks EXCEPT ![t] =
            [@ EXCEPT !.pc = "st_write", !.cnt = ReadCounts(searches)]]
    /\ UNCHANGED <<searches, chats, statsCache, cacheFresh, updatingStats,
                   pendingUpdates, bjobs, userSockets, failures>>
    /\ sent' = {}
    /\ lastCalls' = Track(t)
    /\ UNCHANGED <<cancels, extVars>>

\* getSearchStats stores the snapshot; the broadcast that follows reads it.
StatsWrite(t) ==
    LET tk == tasks[t]
    IN  /\ tk.pc = "st_write"
        /\ statsCache' = FullStats(tk.cnt, searches)
        /\ cacheFresh' = TRUE
        /\ FinishStats(t, [tk EXCEPT !.cnt = NoCounts], {}, TRUE)
        /\ UNCHANGED <<searches, chats, userSockets, failures>>
        /\ lastCalls' = Track(t)
        /\ UNCHANGED <<cancels, extVars>>

\* --------------------------------------------------------- search:cancel
\* handleSearchCancel -> cancelSearch: the findOneAndUpdate and the call of
\* the 'cancel' stats update, whatever the findOneAndUpdate returned.
CallCancelSearch(t, s) ==
    LET u == SocketUser[s]
        hit == FirstId({k \in SearchIds(searches) : IsSearchingOf(u, searches[k])})
        tk == [IdleTask EXCEPT !.op = "cancel", !.sock = s,
                               !.res = hit]
    IN  /\ FreeSlot(t)
        /\ cancels' = cancels + 1
        /\ s \in userSockets[u]
        /\ searches' = CancelSearching(searches, u)
        /\ CallStats(t, "cancel", tk, {}, updatingStats, pendingUpdates, bjobs,
                     CacheUsable(statsCache, cacheFresh))
        /\ UNCHANGED <<chats, statsCache, cacheFresh, userSockets, failures>>
        /\ lastCalls' = Track(t)
        /\ UNCHANGED extVars

\* ------------------------------------------------------------ background
\* More than CACHE_TTL passes since the cache was stamped.
Tick ==
    /\ cacheFresh
    /\ cacheFresh' = FALSE
    /\ UNCHANGED <<searches, chats, statsCache, updatingStats, pendingUpdates,
                   bjobs, userSockets, tasks, failures, cancels, lastCalls>>
    /\ sent' = {}
    /\ UNCHANGED extVars

RemoveAt(seq, i) == SubSeq(seq, 1, i - 1) \o SubSeq(seq, i + 1, Len(seq))

\* A deferred broadcastSearchStats starts: getSearchStats answers from a
\* usable cache, otherwise it issues its counts.
BroadcastStart(i) ==
    /\ i \in 1 .. Len(bjobs)
    /\ bjobs[i].ph = "queued"
    /\ bjobs' = IF CacheUsable(statsCache, cacheFresh) THEN RemoveAt(bjobs, i)
                ELSE [bjobs EXCEPT ![i].ph = "counts"]
    /\ UNCHANGED <<searches, chats, statsCache, cacheFresh, updatingStats,
                   pendingUpdates, userSockets, tasks, failures, cancels, lastCalls>>
    /\ sent' = {}
    /\ UNCHANGED extVars

BroadcastCounts(i) ==
    /\ i \in 1 .. Len(bjobs)
    /\ bjobs[i].ph = "counts"
    /\ bjobs' = [bjobs EXCEPT ![i] = [ph |-> "write", cnt |-> ReadCounts(searches)]]
    /\ UNCHANGED <<searches, chats, statsCache, cacheFresh, updatingStats,
                   pendingUpdates, userSockets, tasks, failures, cancels, lastCalls>>
    /\ sent' = {}
    /\ UNCHANGED extVars

BroadcastWrite(i) ==
    /\ i \in 1 .. Len(bjobs)
    /\ bjobs[i].ph = "write"
    /\ statsCache' = FullStats(bjobs[i].cnt, searches)
    /\ cacheFresh' = TRUE
    /\ bjobs' = RemoveAt(bjobs, i)
    /\ UNCHANGED <<searches, chats, updatingStats, pendingUpdates,
                   userSockets, tasks, failures, cancels, lastCalls>>
    /\ sent' = {}
    /\ UNCHANGED extVars

\* ------------------------------------------------------- specifications
Next ==
    \/ \E t \in Tasks, s \in SocketIds, c \in {CriteriaA, CriteriaB, CriteriaC, CriteriaD} :
            CanInsert(MaxSearches) /\ CallStartSearch(t, s, c)
    \/ \E t \in Tasks : CreateSearch(t)
    \/ \E t \in Tasks : FindAndSelect(t)
    \/ \E t \in Tasks : CreateChat(t)
    \/ \E t \in Tasks, ok \in BOOLEAN : UpdateSearch1(t, ok)
    \/ \E t \in Tasks, ok \in BOOLEAN : UpdateSearch2(t, ok)
    \/ \E t \in Tasks, ok \in BOOLEAN : Rollback1(t, ok)
    \/ \E t \in Tasks, ok \in BOOLEAN : Rollback2(t, ok)
    \/ \E t \in Tasks : StatsFindOne(t)
    \/ \E t \in Tasks : StatsCounts(t)
    \/ \E t \in Tasks : StatsWrite(t)
    \/ \E t \in Tasks, s \in SocketIds : CanCancel(MaxCancels) /\ CallCancelSearch(t, s)
    \/ Tick
    \/ \E i \in 1 .. MaxDeferred : BroadcastStart(i)
    \/ \E i \in 1 .. MaxDeferred : BroadcastCounts(i)
    \/ \E i \in 1 .. MaxDeferred : BroadcastWrite(i)

\* Concurrent handlers, with Store writes of createMatch that may fail.
Spec == Init /\ [][Next]_vars

\* One client that waits for each call to return before the next, on a Store
\* that does not fail; the calls are logged.
InitSeq == InitStore /\ lastCalls = [NotTracking EXCEPT !.on = TRUE]

NextSeq ==
    \/ \E s \in SocketIds, c \in {CriteriaA, CriteriaB, CriteriaC, CriteriaD} :
            CanInsert(MaxSeqSearches) /\ CallStartSearch("t1", s, c)
    \/ CreateSearch("t1")
    \/ FindAndSelect("t1")
    \/ CreateChat("t1")
    \/ UpdateSearch1("t1", TRUE)
    \/ UpdateSearch2("t1", TRUE)
    \/ StatsFindOne("t1")
    \/ StatsCounts("t1")
    \/ StatsWrite("t1")
    \/ \E s \in SocketIds : CanCancel(MaxSeqCancels) /\ CallCancelSearch("t1", s)
    \/ Tick

SpecSeq == InitSeq /\ [][NextSeq]_vars

\* ---------------------------------------- debounced statistics broadcast
\* The SearchService whose broadcastSearchStats is debounced.  Time is
\* counted in steps of TickMs.
DEBOUNCE_DELAY == 2000
CACHE_TTL == 5000
TickMs == 1000
\* search:start and search:cancel events of one run.
MaxStatsSearches == 2
MaxStatsCancels == 1

Min(a, b) == IF a < b THEN a ELSE b

StatsEvent(stats) == [ev |-> "search:stats", t |-> stats.t, m |-> stats.m, f |-> stats.f]

\* wsManager.io.to('search_stats_room').emit('search:stats', stats)
EmitToStatsRoom(out, stats) == out \cup {<<"search_stats_room", StatsEvent(stats)>>}

RoomCasts(out) == {m \in out : m[1] = "search_stats_room"}

\* A stats update is requested: a request made DEBOUNCE_DELAY or more after
\* the previous one opens a new burst.
NoteEvent ==
    /\ UNCHANGED <<hubVars, restVars>>
    /\ sinceEvent' = 0
    /\ burstCasts' = IF sinceEvent >= DEBOUNCE_DELAY THEN 0 ELSE burstCasts

\* A step that is not a request: the broadcasts it sends are counted.
NoteCasts ==
    /\ UNCHANGED <<hubVars, restVars>>
    /\ sinceEvent' = sinceEvent
    /\ burstCasts' = Min(burstCasts + Cardinality(RoomCasts(sent')), 2)

\* The finally block of updateAndBroadcastStats and the return of the
\* handler: the flag is released and a pending request restarts the debounce
\* timer of broadcastSearchStats.
FinallyStats(t, tk, out) ==
    /\ updatingStats' = FALSE
    /\ pendingUpdates' = FALSE
    /\ debounceTimeout' = IF pendingUpdates THEN DEBOUNCE_DELAY ELSE debounceTimeout
    /\ Return(t, [tk EXCEPT !.act = "none", !.cnt = NoCounts], out)

\* updateAndBroadcastStats(action, userId) up to its first await.
UpdateAndBroadcastStats(t, action, tk) ==
    IF updatingStats
    THEN /\ pendingUpdates' = TRUE
         /\ UNCHANGED <<updatingStats, statsCache, cacheFresh, cacheAge, debounceTimeout>>
         /\ Return(t, tk, {})
    ELSE /\ updatingStats' = TRUE
         /\ UNCHANGED <<pendingUpdates, debounceTimeout>>
         /\ IF CacheUsable(statsCache, cacheFresh)
            THEN /\ tasks' = [tasks EXCEPT ![t] = [tk EXCEPT !.act = action, !.pc = "ub_find"]]
                 /\ UNCHANGED <<statsCache, cacheFresh, cacheAge>>
            ELSE /\ tasks' = [tasks EXCEPT ![t] = [tk EXCEPT !.act = action, !.pc = "ub_counts"]]
                 /\ statsCache' = NoCache
                 /\ cacheFresh' = FALSE
                 /\ cacheAge' = CACHE_TTL
         /\ sent' = {}

\* startSearch after findMatches found nobody: the 'start' update.
FindNoMatch(t) ==
    LET tk == tasks[t]
    IN  /\ tk.pc = "find"
        /\ FindMatches(searches[tk.sid], searches) = << >>
        /\ UpdateAndBroadcastStats(t, "start", tk)
        /\ NoteEvent
        /\ UNCHANGED <<searches, chats, bjobs, userSockets, failures, cancels, lastCalls>>

\* handleSearchCancel -> cancelSearch: the findOneAndUpdate and the 'cancel'
\* update.
CancelSearchDebounced(t, s) ==
    LET u == SocketUser[s]
        hit == FirstId({k \in SearchIds(searches) : IsSearchingOf(u, searches[k])})
    IN  /\ FreeSlot(t)
        /\ s \in userSockets[u]
        /\ cancels' = cancels + 1
        /\ searches' = CancelSearching(searches, u)
        /\ UpdateAndBroadcastStats(t, "cancel",
                [IdleTask EXCEPT !.op = "cancel", !.sock = s, !.res = hit])
        /\ NoteEvent
        /\ UNCHANGED <<chats, bjobs, userSockets, failures, lastCalls>>

\* The await of the incremental branch returns: getUserActiveSearch for
\* 'start', Search.findOne({userId, status: 'cancelled'}) for 'cancel'.  A
\* document found changes the counters of the cache (its timestamp stays)
\* and the copy is broadcast at once; otherwise the cache is dropped and
\* getSearchStats recomputes.
UpdateFind(t) ==
    LET tk == tasks[t]
        u == TaskUser(tk)
        wanted == IF tk.act = "start" THEN "searching" ELSE "cancelled"
        hit == FirstId({k \in SearchIds(searches) :
                    searches[k].userId = u /\ searches[k].status = wanted})
        cache == ApplyDelta(statsCache, tk.act, searches[hit].gender)
    IN  /\ tk.pc = "ub_find"
        /\ IF hit # 0
           THEN /\ statsCache' = cache
                /\ UNCHANGED <<cacheFresh, cacheAge>>
                /\ FinallyStats(t, tk, EmitToStatsRoom({}, cache))
           ELSE /\ statsCache' = NoCache
                /\ cacheFresh' = FALSE
                /\ cacheAge' = CACHE_TTL
                /\ tasks' = [tasks EXCEPT ![t] = [tk EXCEPT !.pc = "ub_counts"]]
                /\ sent' = {}
                /\ UNCHANGED <<updatingStats, pendingUpdates, debounceTimeout>>
        /\ NoteCasts
        /\ UNCHANGED <<searches, chats, bjobs, userSockets, failures, cancels, lastCalls>>

\* getSearchStats without a cache: the countDocuments calls.
UpdateCounts(t) ==
    /\ tasks[t].pc = "ub_counts"
    /\ tasks' = [tasks EXCEPT ![t] = [@ EXCEPT !.pc = "ub_write", !.cnt = ReadCounts(searches)]]
    /\ sent' = {}
    /\ NoteCasts
    /\ UNCHANGED <<searches, chats, statsCache, cacheFresh, cacheAge, updatingStats,
                   pendingUpdates, debounceTimeout, bjobs, userSockets, failures,
                   cancels, lastCalls>>

\* getSearchStats stamps the snapshot and updateAndBroadcastStats broadcasts
\* it at once.
UpdateWrite(t) ==
    LET tk == tasks[t]
        stats == FullStats(tk.cnt, searches)
    IN  /\ tk.pc = "ub_write"
        /\ statsCache' = stats
        /\ cacheFresh' = TRUE
        /\ cacheAge' = 0
        /\ FinallyStats(t, tk, EmitToStatsRoom({}, stats))
        /\ NoteCasts
        /\ UNCHANGED <<searches, chats, bjobs, userSockets, failures, cancels, lastCalls>>

\* The debounce timer fires: getSearchStats answers from a usable cache and
\* the answer is broadcast, otherwise it issues its counts.
DebounceFire ==
    /\ debounceTimeout = 0
    /\ debounceTimeout' = NoTimer
    /\ IF CacheUsable(statsCache, cacheFresh)
       THEN /\ sent' = EmitToStatsRoom({}, statsCache)
            /\ UNCHANGED bjobs
       ELSE /\ Len(bjobs) < MaxDeferred
            /\ bjobs' = Append(bjobs, [ph |-> "counts", cnt |-> NoCounts])
            /\ sent' = {}
    /\ NoteCasts
    /\ UNCHANGED <<searches, chats, statsCache, cacheFresh, cacheAge, updatingStats,
                   pendingUpdates, userSockets, tasks, failures, cancels, lastCalls>>

DebounceCounts(i) ==
    /\ i \in 1 .. Len(bjobs)
    /\ bjobs[i].ph = "counts"
    /\ bjobs' = [bjobs EXCEPT ![i] = [ph |-> "emit", cnt |-> ReadCounts(searches)]]
    /\ sent' = {}
    /\ NoteCasts
    /\ UNCHANGED <<searches, chats, statsCache, cacheFresh, cacheAge, updatingStats,
                   pendingUpdates, debounceTimeout, userSockets, tasks, failures,
                   cancels, lastCalls>>

\* The timer's getSearchStats stamps its snapshot, which is broadcast.
DebounceEmit(i) ==
    LET stats == FullStats(bjobs[i].cnt, searches)
    IN  /\ i \in 1 .. Len(bjobs)
        /\ bjobs[i].ph = "emit"
        /\ statsCache' = stats
        /\ cacheFresh' = TRUE
        /\ cacheAge' = 0
        /\ bjobs' = RemoveAt(bjobs, i)
        /\ sent' = EmitToStatsRoom({}, stats)
        /\ NoteCasts
        /\ UNCHANGED <<searches, chats, updatingStats, pendingUpdates, debounceTimeout,
                       userSockets, tasks, failures, cancels, lastCalls>>

\* TickMs pass; a timer that is due fires first.
Elapse ==
    /\ debounceTimeout # 0
    /\ debounceTimeout > 0 \/ sinceEvent < DEBOUNCE_DELAY
            \/ (statsCache # NoCache /\ cacheAge < CACHE_TTL)
    /\ debounceTimeout' = IF debounceTimeout > 0 THEN Max(0, debounceTimeout - TickMs)
                          ELSE debounceTimeout
    /\ cacheAge' = Min(cacheAge + TickMs, CACHE_TTL)
    /\ cacheFresh' = (statsCache # NoCache /\ cacheAge' < CACHE_TTL)
    /\ sinceEvent' = Min(sinceEvent + TickMs, DEBOUNCE_DELAY)
    /\ sent' = {}
    /\ UNCHANGED <<searches, chats, statsCache, updatingStats, pendingUpdates, bjobs,
                   userSockets, tasks, failures, cancels, lastCalls, burstCasts, hubVars, restVars>>

\* Users whose criteria accept nobody among them search, and cancel the
\* searches they have, so that every statistics update is a 'start' or a
\* 'cancel' that follows a change of the Store.
NextStats ==
    \/ \E t \in Tasks, s \in SocketIds, c \in {CriteriaA, CriteriaD} :
            CanInsert(MaxStatsSearches) /\ CallStartSearch(t, s, c)
    \/ \E t \in Tasks : CreateSearch(t)
    \/ \E t \in Tasks : FindNoMatch(t)
    \/ \E t \in Tasks, s \in SocketIds :
            /\ CanCancel(MaxStatsCancels)
            /\ \E k \in SearchIds(searches) : IsSearchingOf(SocketUser[s], searches[k])
            /\ CancelSearchDebounced(t, s)
    \/ \E t \in Tasks : UpdateFind(t)
    \/ \E t \in Tasks : UpdateCounts(t)
    \/ \E t \in Tasks : UpdateWrite(t)
    \/ DebounceFire
    \/ \E i \in 1 .. MaxDeferred : DebounceCounts(i)
    \/ \E i \in 1 .. MaxDeferred : DebounceEmit(i)
    \/ Elapse

SpecStats == Init /\ [][NextStats]_allVars

\* ------------------------------------------- sessions, rooms and timers
\* The connection and disconnect handlers of WebSocketManager.  Time is
\* counted in steps of GraceTickMs and the runs are shorter than the two
\* minutes of socket.io's connectionStateRecovery, so that a session that
\* disconnected can still be recovered and no userRooms entry is dropped.
GRACE_MS == 10000
GraceTickMs == 5000
MaxHubTicks == 3
MaxDrops == 2
MaxHubSearches == 2

statsExt == <<debounceTimeout, cacheAge, sinceEvent, burstCasts>>

StatsRoom == <<"search_stats_room", "all">>
SearchRoom(u) == <<"search", u>>
ChatRoom(c) == <<"chat", c>>
HubChats == {1}

RecoveredEvent ==
    [ev |-> "connection:recovered", status |-> "none", telegramId |-> "none",
     gender |-> "none", age |-> 0, chatId |-> 0]

\* handleSearchStart up to the first await of startSearch: the session joins
\* search:{userId} and the user's previous search is cancelled.
HubSearchStart(t, s, c) ==
    /\ FreeSlot(t)
    /\ c \in CriteriaOf[SocketUser[s]]
    /\ s \in userSockets[SocketUser[s]]
    /\ rooms' = [rooms EXCEPT ![s] = @ \cup {SearchRoom(SocketUser[s])}]
    /\ searches' = CancelSearching(searches, SocketUser[s])
    /\ tasks' = [tasks EXCEPT ![t] =
            [IdleTask EXCEPT !.pc = "create", !.op = "start", !.sock = s, !.crit = c]]
    /\ sent' = {}
    /\ UNCHANGED <<chats, statsCache, cacheFresh, updatingStats, pendingUpdates, bjobs,
                   userSockets, failures, cancels, lastCalls, statsExt, restVars, userRooms,
                   graceTimers, pendingSearchCancellations, lookups, clock, drops,
                   lostAt, heldUnion>>

\* search:subscribe_stats joins the statistics room (the snapshot it then
\* sends to the caller changes no room).
SubscribeStats(s) ==
    /\ s \in userSockets[SocketUser[s]]
    /\ StatsRoom \notin rooms[s]
    /\ rooms' = [rooms EXCEPT ![s] = @ \cup {StatsRoom}]
    /\ sent' = {}
    /\ UNCHANGED <<vars_but_sent, statsExt, restVars, userRooms, graceTimers,
                   pendingSearchCancellations, lookups, clock, drops, lostAt, heldUnion>>

\* chat:join: the session joins chat:{chatId} and the room is noted for the
\* user; nothing is looked up.
ChatJoin(s, c) ==
    /\ s \in userSockets[SocketUser[s]]
    /\ ChatRoom(c) \notin rooms[s]
    /\ rooms' = [rooms EXCEPT ![s] = @ \cup {ChatRoom(c)}]
    /\ userRooms' = [userRooms EXCEPT ![SocketUser[s]] = @ \cup {ChatRoom(c)}]
    /\ sent' = {}
    /\ UNCHANGED <<vars_but_sent, statsExt, restVars, graceTimers, pendingSearchCancellations,
                   lookups, clock, drops, lostAt, heldUnion>>

\* chat:leave
ChatLeave(s, c) ==
    /\ s \in userSockets[SocketUser[s]]
    /\ ChatRoom(c) \in rooms[s]
    /\ rooms' = [rooms EXCEPT ![s] = @ \ {ChatRoom(c)}]
    /\ userRooms' = [userRooms EXCEPT ![SocketUser[s]] = @ \ {ChatRoom(c)}]
    /\ sent' = {}
    /\ UNCHANGED <<vars_but_sent, statsExt, restVars, graceTimers, pendingSearchCancellations,
                   lookups, clock, drops, lostAt, heldUnion>>

\* The disconnect handler: the session leaves userSockets; when it was the
\* user's last one, getUserActiveSearch is issued.
Disconnect(s) ==
    LET u == SocketUser[s]
        last == userSockets[u] = {s}
    IN  /\ s \in userSockets[u]
        /\ drops < MaxDrops
        /\ drops' = drops + 1
        /\ userSockets' = [userSockets EXCEPT ![u] = @ \ {s}]
        /\ lookups' = IF last THEN Append(lookups, u) ELSE lookups
        /\ lostAt' = IF last THEN [lostAt EXCEPT ![u] = clock] ELSE lostAt
        /\ heldUnion' = IF last
                         THEN [heldUnion EXCEPT ![u] = UNION {rooms[x] : x \in userSockets[u]}]
                         ELSE heldUnion
        /\ sent' = {}
        /\ UNCHANGED <<searches, chats, statsCache, cacheFresh, updatingStats,
                       pendingUpdates, bjobs, tasks, failures, cancels, lastCalls,
                       statsExt, restVars, rooms, userRooms, graceTimers,
                       pendingSearchCancellations, clock>>

\* The lookup of a disconnect handler returns: a searching record arms a
\* timer of GRACE_MS and the user's entry in pendingSearchCancellations is
\* set to it, whatever it held.
LookupReturns ==
    LET u == Head(lookups)
        found == \E k \in SearchIds(searches) : IsSearchingOf(u, searches[k])
    IN  /\ lookups # << >>
        /\ lookups' = Tail(lookups)
        /\ IF found
           THEN /\ graceTimers' = Append(graceTimers,
                        [user |-> u, due |-> clock + GRACE_MS, st |-> "armed"])
                /\ pendingSearchCancellations' =
                        [pendingSearchCancellations EXCEPT ![u] = Len(graceTimers) + 1]
           ELSE UNCHANGED <<graceTimers, pendingSearchCancellations>>
        /\ sent' = {}
        /\ UNCHANGED <<vars_but_sent, statsExt, restVars, rooms, userRooms, clock, drops,
                       lostAt, heldUnion>>

\* The connection handler.  recovered is socket.recovered: socket.io has
\* restored the session with its id and its rooms; otherwise the session is
\* a new one.  A recovered session joins the rooms of userRooms, clears the
\* timer of the user's entry in pendingSearchCancellations and is told
\* connection:recovered.
Connect(s, recovered) ==
    LET u == SocketUser[s]
        i == pendingSearchCancellations[u]
    IN  /\ s \notin userSockets[u]
        /\ userSockets' = [userSockets EXCEPT ![u] = @ \cup {s}]
        /\ IF recovered
           THEN /\ rooms' = [rooms EXCEPT ![s] = @ \cup userRooms[u]]
                /\ graceTimers' = IF i # 0 /\ graceTimers[i].st = "armed"
                                  THEN [graceTimers EXCEPT ![i].st = "cleared"]
                                  ELSE graceTimers
                /\ pendingSearchCancellations' = [pendingSearchCancellations EXCEPT ![u] = 0]
                /\ sent' = {<<s, RecoveredEvent>>}
           ELSE /\ rooms' = [rooms EXCEPT ![s] = {}]
                /\ sent' = {}
                /\ UNCHANGED <<graceTimers, pendingSearchCancellations>>
        /\ UNCHANGED <<searches, chats, statsCache, cacheFresh, updatingStats,
                       pendingUpdates, bjobs, tasks, failures, cancels, lastCalls,
                       statsExt, restVars, userRooms, lookups, clock, drops, lostAt, heldUnion>>

\* A searchCancelTimeout fires: a user who has a session again is left
\* alone; otherwise getUserActiveSearch is read again and a searching record
\* is cancelled by cancelSearch, which tells no session.
GraceTimerFires(i, t) ==
    LET u == graceTimers[i].user
        hit == FirstId({k \in SearchIds(searches) : IsSearchingOf(u, searches[k])})
        tk == [IdleTask EXCEPT !.op = "autocancel",
                               !.sock = CHOOSE x \in SocketIds : SocketUser[x] = u]
    IN  /\ i \in 1 .. Len(graceTimers)
        /\ graceTimers[i].st = "armed"
        /\ graceTimers[i].due <= clock
        /\ FreeSlot(t)
        /\ graceTimers' = [graceTimers EXCEPT ![i].st = "fired"]
        /\ IF userSockets[u] = {} /\ hit # 0
           THEN /\ searches' = CancelSearching(searches, u)
                /\ CallStats(t, "cancel", tk, {}, updatingStats, pendingUpdates, bjobs,
                             CacheUsable(statsCache, cacheFresh))
           ELSE /\ sent' = {}
                /\ UNCHANGED <<searches, tasks, updatingStats, pendingUpdates, bjobs>>
        /\ UNCHANGED <<chats, statsCache, cacheFresh, userSockets, failures, cancels,
                       lastCalls, statsExt, restVars, rooms, userRooms,
                       pendingSearchCancellations, lookups, clock, drops, lostAt,
                       heldUnion>>

\* GraceTickMs pass: the Store has answered every call in flight, a timer
\* that is due has fired, and the statistics cache has outlived CACHE_TTL.
HubTick ==
    /\ clock < MaxHubTicks * GraceTickMs
    /\ lookups = << >>
    /\ bjobs = << >>
    /\ \A t \in Tasks : tasks[t].pc = "idle"
    /\ \A i \in 1 .. Len(graceTimers) :
            graceTimers[i].st = "armed" => graceTimers[i].due > clock
    /\ clock' = clock + GraceTickMs
    /\ cacheFresh' = FALSE
    /\ sent' = {}
    /\ UNCHANGED <<searches, chats, statsCache, updatingStats, pendingUpdates, bjobs,
                   userSockets, tasks, failures, cancels, lastCalls, statsExt, restVars, rooms,
                   userRooms, graceTimers, pendingSearchCancellations, lookups, drops,
                   lostAt, heldUnion>>

\* u1 and u3, whose criteria accept nobody among them, search; the one
\* session of u3 comes and goes.  (A deferred broadcast always starts on the
\* cache the update before it has just stamped.)
NextHub ==
    \/ \E t \in Tasks, s \in {"s1", "s4"}, c \in {CriteriaA, CriteriaD} :
            CanInsert(MaxHubSearches) /\ HubSearchStart(t, s, c)
    \/ \E t \in Tasks : CreateSearch(t)
    \/ \E t \in Tasks : FindAndSelect(t)
    \/ \E t \in Tasks : StatsFindOne(t)
    \/ \E t \in Tasks : StatsCounts(t)
    \/ \E t \in Tasks : StatsWrite(t)
    \/ \E i \in 1 .. MaxDeferred : BroadcastStart(i)
    \/ Disconnect("s4")
    \/ LookupReturns
    \/ \E recovered \in BOOLEAN : Connect("s4", recovered)
    \/ \E i \in 1 .. MaxDrops, t \in Tasks : GraceTimerFires(i, t)
    \/ HubTick

SpecHub == Init /\ [][NextHub]_allVars

\* The same, with every connection of u3 one that socket.io has recovered.
NextHubRecovered ==
    \/ \E t \in Tasks, s \in {"s1", "s4"}, c \in {CriteriaA, CriteriaD} :
            CanInsert(MaxHubSearches) /\ HubSearchStart(t, s, c)
    \/ \E t \in Tasks : CreateSearch(t)
    \/ \E t \in Tasks : FindAndSelect(t)
    \/ \E t \in Tasks : StatsFindOne(t)
    \/ \E t \in Tasks : StatsCounts(t)
    \/ \E t \in Tasks : StatsWrite(t)
    \/ \E i \in 1 .. MaxDeferred : BroadcastStart(i)
    \/ Disconnect("s4")
    \/ LookupReturns
    \/ Connect("s4", TRUE)
    \/ \E i \in 1 .. MaxDrops, t \in Tasks : GraceTimerFires(i, t)
    \/ HubTick

SpecHubRecovered == Init /\ [][NextHubRecovered]_allVars

\* The two sessions of u1 join and leave rooms, disconnect and come back.
NextRooms ==
    \/ \E s \in {"s1", "s2"} : SubscribeStats(s)
    \/ \E s \in {"s1", "s2"}, c \in HubChats : ChatJoin(s, c)
    \/ \E s \in {"s1", "s2"}, c \in HubChats : ChatLeave(s, c)
    \/ \E s \in {"s1", "s2"} : Disconnect(s)
    \/ LookupReturns
    \/ \E s \in {"s1", "s2"}, recovered \in BOOLEAN : Connect(s, recovered)
    \/ HubTick

SpecRooms == Init /\ [][NextRooms]_allVars

\* ------------------------------------------------------------ chat router
\* The chat handlers of WebSocketManager with ChatService, and the HTTP
\* deactivation.  Each handler runs alone, from its event to its answer;
\* the runs are shorter than the resetTimeout of the circuit breaker.
CHAT_FAILURE_THRESHOLD == 5
MaxMessages == 2

NoDate == "unset"
SomeDate == "set"
NoMessage == [sender |-> "none", content |-> "", isRead |-> FALSE]
EmptyLog == [messages |-> << >>, lastMessage |-> NoMessage, endedAt |-> NoDate,
             endedBy |-> "none", deleted |-> FALSE, version |-> 0]

\* The document of chat c beyond participants, type and isActive.
LogOf(c) == IF c <= Len(chatLog) THEN chatLog[c] ELSE EmptyLog
SetLog(c, log) ==
    [k \in 1 .. Max(Len(chatLog), c) |-> IF k = c THEN log ELSE LogOf(k)]

\* Chat.findById(chatId) finds a document.
ChatExists(c) == c \in 1 .. Len(chats) /\ ~LogOf(c).deleted
IsParticipant(u, c) == u = chats[c].participants[1] \/ u = chats[c].participants[2]

ChatEvent(name, c, u, content) == [ev |-> name, chat |-> c, userId |-> u, content |-> content]
ChatError(msg) == [ev |-> "error", message |-> msg]

\* io.to(`chat:${chatId}`).emit(e): the connected sessions in the room;
\* socket.to(...) leaves out the sender.
ToRoom(c, e, except) ==
    {<<x, e>> : x \in {y \in SocketIds : /\ y \in userSockets[SocketUser[y]]
                                         /\ ChatRoom(c) \in rooms[y]} \ except}

chatFrame == <<searches, statsCache, cacheFresh, updatingStats, pendingUpdates, bjobs,
               userSockets, tasks, failures, cancels, lastCalls, statsExt, hubVars,
               ratings, userRating, rateOps, dupKeyError, searchFailures, breaker,
               probe, fullAge, asyncVars>>

\* chat:message: handleChatMessage -> chatCircuitBreaker.execute ->
\* ChatService.sendMessage.  chat.save() rejects a message whose content is
\* empty (content is required); every throw counts as a failure of the
\* breaker and is answered by the fallback.
ChatMessage(s, c, content) ==
    LET u == SocketUser[s]
        msg == [sender |-> u, content |-> content, isRead |-> FALSE]
        log == LogOf(c)
    IN  /\ s \in userSockets[u]
        /\ UNCHANGED <<chats, chatFrame>>
        /\ IF chatFailures >= CHAT_FAILURE_THRESHOLD
           THEN /\ sent' = {<<s, ChatError("Message queued for delivery due to service degradation")>>}
                /\ UNCHANGED <<chatLog, chatFailures>>
           ELSE IF ChatExists(c) /\ IsParticipant(u, c) /\ content # ""
           THEN /\ Len(log.messages) < MaxMessages
                /\ chatLog' = SetLog(c, [log EXCEPT !.messages = Append(@, msg),
                                                    !.lastMessage = msg])
                /\ sent' = ToRoom(c, ChatEvent("chat:message", c, u, content), {})
                /\ UNCHANGED chatFailures
           ELSE /\ chatFailures' = chatFailures + 1
                /\ sent' = {<<s, ChatError("Message queued for delivery due to service degradation")>>}
                /\ UNCHANGED chatLog

\* chat:typing: handleChatTyping relays to the room.
ChatTyping(s, c) ==
    /\ s \in userSockets[SocketUser[s]]
    /\ sent' = ToRoom(c, ChatEvent("chat:typing", c, TelegramIdOf[SocketUser[s]], ""), {s})
    /\ UNCHANGED <<chats, chatFrame, chatLog, chatFailures>>

\* chat:read: handleChatRead -> ChatService.markAsRead; ts counts the
\* messages sent up to the timestamp.
ChatRead(s, c, ts) ==
    LET u == SocketUser[s]
        log == LogOf(c)
        marked == [k \in 1 .. Len(log.messages) |->
                      IF k <= ts /\ log.messages[k].sender # u
                      THEN [log.messages[k] EXCEPT !.isRead = TRUE]
                      ELSE log.messages[k]]
    IN  /\ s \in userSockets[u]
        /\ UNCHANGED <<chats, chatFrame, chatFailures>>
        /\ IF ChatExists(c)
           THEN /\ chatLog' = SetLog(c, [log EXCEPT !.messages = marked])
                /\ sent' = ToRoom(c, ChatEvent("chat:read", c, u, ""), {})
           ELSE /\ sent' = {<<s, ChatError("Failed to mark messages as read")>>}
                /\ UNCHANGED chatLog

\* chat:end: ChatService.endChat.
ChatEnd(s, c) ==
    LET u == SocketUser[s]
    IN  /\ s \in userSockets[u]
        /\ UNCHANGED <<chatFrame, chatFailures>>
        /\ IF ChatExists(c) /\ IsParticipant(u, c) /\ chats[c].isActive
           THEN /\ chats' = [chats EXCEPT ![c].isActive = FALSE]
                /\ chatLog' = SetLog(c, [LogOf(c) EXCEPT !.endedAt = SomeDate, !.endedBy = u])
                /\ sent' = ToRoom(c, ChatEvent("chat:ended", c, u, ""), {})
           ELSE /\ sent' = {<<s, ChatError("Failed to end chat")>>}
                /\ UNCHANGED <<chats, chatLog>>

\* DELETE /:chatId: chatController.deactivateChat.
DeactivateChat(c) ==
    /\ ChatExists(c)
    /\ chats[c].isActive
    /\ chats' = [chats EXCEPT ![c].isActive = FALSE]
    /\ sent' = {}
    /\ UNCHANGED <<chatFrame, chatLog, chatFailures>>

\* expiresAt passes: the TTL index removes the document.
ExpireChat(c) ==
    /\ ChatExists(c)
    /\ chatLog' = SetLog(c, [LogOf(c) EXCEPT !.deleted = TRUE])
    /\ sent' = {}
    /\ UNCHANGED <<chats, chatFrame, chatFailures>>

\* The Store after createMatch has paired u1 and u2 in chat 1, and a server
\* whose sessions have just connected.
InitChat ==
    /\ searches = SetMatched(SetMatched(
            <<NewSearch("u1", CriteriaA), NewSearch("u2", CriteriaB)>>, 1, 2, 1), 2, 1, 1)
    /\ chats = <<[participants |-> <<"u1", "u2">>, type |-> "anonymous", isActive |-> TRUE]>>
    /\ statsCache = NoCache
    /\ cacheFresh = FALSE
    /\ updatingStats = FALSE
    /\ pendingUpdates = FALSE
    /\ bjobs = << >>
    /\ userSockets = [u \in Users |-> {s \in SocketIds : SocketUser[s] = u}]
    /\ sent = {}
    /\ tasks = [t \in Tasks |-> IdleTask]
    /\ failures = 0
    /\ cancels = 0
    /\ lastCalls = NotTracking
    /\ InitExt

\* A session of each participant and one of u3, who is none.
ChatSessions == {"s1", "s3", "s4"}

NextChat ==
    \/ \E s \in ChatSessions, c \in HubChats : ChatJoin(s, c)
    \/ \E s \in ChatSessions, c \in HubChats : ChatLeave(s, c)
    \/ \E s \in ChatSessions, c \in HubChats, content \in {"hi", ""} : ChatMessage(s, c, content)
    \/ \E s \in ChatSessions, c \in HubChats : ChatTyping(s, c)
    \/ \E s \in ChatSessions, c \in HubChats, ts \in 0 .. MaxMessages : ChatRead(s, c, ts)
    \/ \E s \in ChatSessions, c \in HubChats : ChatEnd(s, c)
    \/ \E c \in HubChats : DeactivateChat(c)
    \/ \E c \in HubChats : ExpireChat(c)

SpecChat == InitChat /\ [][NextChat]_allVars

\* ---------------------------------------------------------------- ratings
\* chat:rate -> RatingService.rateUser, one step for each call of the Store
\* (the two User.findById, which always find the users, go with the step
\* before them).
MaxRateOps == 2
Scores == {1, 5}

RateError == ChatError("Failed to rate chat")

\* The other participant of the chat.
RatedUser(u, c) ==
    IF chats[c].participants[1] = u THEN chats[c].participants[2]
    ELSE chats[c].participants[1]

Rated(rs, r) == \E k \in 1 .. Len(rs) : rs[k].rater = r.rater /\ rs[k].chat = r.chat

\* A collection without the unique index takes every document.
NoUniqueIndex(rs, r) == TRUE

\* ratingSchema.index({raterUserId: 1, chatId: 1}, {unique: true})
UniqueIndexAllows(rs, r) == ~Rated(rs, r)

RECURSIVE SumScores(_, _)
SumScores(rs, u) ==
    IF rs = << >> THEN 0
    ELSE (IF Head(rs).rated = u THEN Head(rs).score ELSE 0) + SumScores(Tail(rs), u)
CountScores(rs, u) == Cardinality({k \in 1 .. Len(rs) : rs[k].rated = u})

rateFrame == <<searches, chats, statsCache, cacheFresh, updatingStats, pendingUpdates,
               bjobs, userSockets, tasks, failures, cancels, lastCalls, statsExt,
               hubVars, chatLog, chatFailures, searchFailures, breaker, probe, fullAge, asyncVars>>

\* The handler up to Rating.findOne: Chat.findById and the test of the
\* participants.
RateStart(s, c, score) ==
    LET u == SocketUser[s]
    IN  /\ s \in userSockets[u]
        /\ Len(rateOps) < MaxRateOps
        /\ IF ChatExists(c) /\ IsParticipant(u, c)
           THEN /\ rateOps' = Append(rateOps,
                        [pc |-> "existing", sock |-> s,
                         doc |-> [rater |-> u, chat |-> c, rated |-> RatedUser(u, c),
                                  score |-> score],
                         sum |-> 0, n |-> 0])
                /\ sent' = {}
           ELSE /\ sent' = {<<s, RateError>>}
                /\ UNCHANGED rateOps
        /\ UNCHANGED <<rateFrame, ratings, userRating, dupKeyError>>

\* Rating.findOne({chatId, raterUserId}) returns.
RateFindExisting(i) ==
    /\ i \in 1 .. Len(rateOps)
    /\ rateOps[i].pc = "existing"
    /\ IF Rated(ratings, rateOps[i].doc)
       THEN /\ rateOps' = RemoveAt(rateOps, i)
            /\ sent' = {<<rateOps[i].sock, RateError>>}
       ELSE /\ rateOps' = [rateOps EXCEPT ![i].pc = "create"]
            /\ sent' = {}
    /\ UNCHANGED <<rateFrame, ratings, userRating, dupKeyError>>

\* Rating.create returns: the document is inserted unless the unique index
\* rejects it, which the handler answers with error.
RateCreate(i) ==
    /\ i \in 1 .. Len(rateOps)
    /\ rateOps[i].pc = "create"
    /\ IF UniqueIndexAllows(ratings, rateOps[i].doc)
       THEN /\ ratings' = Append(ratings, rateOps[i].doc)
            /\ rateOps' = [rateOps EXCEPT ![i].pc = "read"]
            /\ sent' = {}
            /\ UNCHANGED dupKeyError
       ELSE /\ rateOps' = RemoveAt(rateOps, i)
            /\ sent' = {<<rateOps[i].sock, RateError>>}
            /\ dupKeyError' = TRUE
            /\ UNCHANGED ratings
    /\ UNCHANGED <<rateFrame, userRating>>

\* updateUserRating: Rating.find({ratedUserId}) returns.
RateRead(i) ==
    /\ i \in 1 .. Len(rateOps)
    /\ rateOps[i].pc = "read"
    /\ rateOps' = [rateOps EXCEPT ![i].pc = "write",
                                  ![i].sum = SumScores(ratings, rateOps[i].doc.rated),
                                  ![i].n = CountScores(ratings, rateOps[i].doc.rated)]
    /\ sent' = {}
    /\ UNCHANGED <<rateFrame, ratings, userRating, dupKeyError>>

\* User.findByIdAndUpdate(userId, {$set: {'stats.rating': averageRating}})
\* returns and the rated user is told chat:rated.
RateWrite(i) ==
    LET op == rateOps[i]
    IN  /\ i \in 1 .. Len(rateOps)
        /\ op.pc = "write"
        /\ userRating' = [userRating EXCEPT ![op.doc.rated] = <<op.sum, op.n>>]
        /\ rateOps' = RemoveAt(rateOps, i)
        /\ sent' = SendToUser({}, op.doc.rated,
                              ChatEvent("chat:rated", op.doc.chat, op.doc.rater, ""))
        /\ UNCHANGED <<rateFrame, ratings, dupKeyError>>

\* The Store after u1 was paired with u2 in chat 1 and then with u3 in
\* chat 2, and a server whose sessions have just connected.
InitRate ==
    /\ searches = SetMatched(SetMatched(SetMatched(SetMatched(
            <<NewSearch("u1", CriteriaA), NewSearch("u2", CriteriaB),
              NewSearch("u1", CriteriaA), NewSearch("u3", CriteriaB)>>,
            1, 2, 1), 2, 1, 1), 3, 4, 2), 4, 3, 2)
    /\ chats = <<[participants |-> <<"u1", "u2">>, type |-> "anonymous", isActive |-> TRUE],
                 [participants |-> <<"u1", "u3">>, type |-> "anonymous", isActive |-> TRUE]>>
    /\ statsCache = NoCache
    /\ cacheFresh = FALSE
    /\ updatingStats = FALSE
    /\ pendingUpdates = FALSE
    /\ bjobs = << >>
    /\ userSockets = [u \in Users |-> {s \in SocketIds : SocketUser[s] = u}]
    /\ sent = {}
    /\ tasks = [t \in Tasks |-> IdleTask]
    /\ failures = 0
    /\ cancels = 0
    /\ lastCalls = NotTracking
    /\ InitExt

NextRate ==
    \/ \E s \in {"s3", "s4"}, c \in {1, 2}, score \in Scores : RateStart(s, c, score)
    \/ \E i \in 1 .. MaxRateOps : RateFindExisting(i)
    \/ \E i \in 1 .. MaxRateOps : RateCreate(i)
    \/ \E i \in 1 .. MaxRateOps : RateRead(i)
    \/ \E i \in 1 .. MaxRateOps : RateWrite(i)

SpecRate == InitRate /\ [][NextRate]_allVars

\* ------------------------------------------------- validation of criteria
\* search:start with criteria the schema of Search turns down.  The breaker
\* of the search handlers opens at SEARCH_FAILURE_THRESHOLD failures and a
\* run ends before its resetTimeout of one minute.
SEARCH_FAILURE_THRESHOLD == 3
MaxValidSearches == 2

CriteriaUnderage == [CriteriaA EXCEPT !.age = 17]

\* What a user may send here: the criteria of CriteriaOf, and for u1 also
\* an age below the schema's minimum.
SentBy(u) == CriteriaOf[u] \cup (IF u = "u1" THEN {CriteriaUnderage} ELSE {})

\* The validators of searchSchema that Search.create runs.
SchemaValid(doc) ==
    /\ doc.gender \in {"male", "female"}
    /\ doc.age \in 18 .. 100
    /\ doc.desiredGender \subseteq {"male", "female", "any"}
    /\ doc.desiredAgeMin \in 18 .. 100
    /\ doc.desiredAgeMax \in 18 .. 100
    /\ doc.maxDistance \in 1 .. 100

validFrame == <<chats, statsCache, cacheFresh, updatingStats, pendingUpdates, bjobs,
                userSockets, failures, cancels, lastCalls, statsExt, userRooms,
                graceTimers, pendingSearchCancellations, lookups, clock, drops,
                lostAt, heldUnion, chatLog, chatFailures, ratings, userRating,
                rateOps, dupKeyError, breaker, probe, fullAge, asyncVars>>

\* handleSearchStart up to the first await of startSearch.  With the breaker
\* open only the fallback runs; otherwise the session joins search:{userId}
\* and the user's previous search is cancelled (res notes which record).
CheckedSearchStart(t, s, c) ==
    LET u == SocketUser[s]
    IN  /\ FreeSlot(t)
        /\ c \in SentBy(u)
        /\ s \in userSockets[u]
        /\ IF searchFailures >= SEARCH_FAILURE_THRESHOLD
           THEN /\ sent' = {<<s, ErrorEvent>>}
                /\ rooms' = [rooms EXCEPT ![s] = @ \ {SearchRoom(u)}]
                /\ UNCHANGED <<searches, tasks>>
           ELSE /\ rooms' = [rooms EXCEPT ![s] = @ \cup {SearchRoom(u)}]
                /\ searches' = CancelSearching(searches, u)
                /\ tasks' = [tasks EXCEPT ![t] =
                        [IdleTask EXCEPT !.pc = "create", !.op = "start", !.sock = s,
                                         !.crit = c,
                                         !.res = FirstId({k \in SearchIds(searches) :
                                                    IsSearchingOf(u, searches[k])})]]
                /\ sent' = {}
        /\ UNCHANGED <<validFrame, searchFailures>>

CreateAccepts(t) ==
    /\ tasks[t].pc = "create"
    /\ SchemaValid(NewSearch(TaskUser(tasks[t]), tasks[t].crit))

\* Search.create rejects the document: startSearch throws, the breaker
\* counts the failure and runs the fallback of handleSearchStart.
CreateRejected(t) ==
    /\ tasks[t].pc = "create"
    /\ ~SchemaValid(NewSearch(TaskUser(tasks[t]), tasks[t].crit))
    /\ searchFailures' = searchFailures + 1
    /\ sent' = {<<tasks[t].sock, ErrorEvent>>}
    /\ rooms' = [rooms EXCEPT ![tasks[t].sock] = @ \ {SearchRoom(TaskUser(tasks[t]))}]
    /\ tasks' = [tasks EXCEPT ![t] = IdleTask]
    /\ UNCHANGED <<validFrame, searches>>

NextValid ==
    \/ \E t \in Tasks, s \in {"s1", "s4"}, c \in {CriteriaA, CriteriaUnderage, CriteriaD} :
            CanInsert(MaxValidSearches) /\ CheckedSearchStart(t, s, c)
    \/ \E t \in Tasks : CreateAccepts(t) /\ CreateSearch(t)
    \/ \E t \in Tasks : CreateRejected(t)
    \/ \E t \in Tasks : FindAndSelect(t)
    \/ \E t \in Tasks : StatsFindOne(t)
    \/ \E t \in Tasks : StatsCounts(t)
    \/ \E t \in Tasks : StatsWrite(t)
    \/ \E i \in 1 .. MaxDeferred : BroadcastStart(i)

SpecValid == Init /\ [][NextValid]_allVars

\* ------------------------------------------------- failing stats updates
\* A Store call of updateAndBroadcastStats rejects (Search.findOne, or a
\* call of getSearchStats): the catch block releases updatingStats and
\* rethrows.  Inside createMatch the error lands in its catch block, which
\* issues the rollback writes; in startSearch and cancelSearch it reaches the
\* handler, which answers the socket with error.
\* A catch block that forgets to release updatingStats.
StatsFailsKeepsFlag(t) ==
    LET tk == tasks[t]
    IN  /\ tk.pc \in {"st_findone", "st_counts", "st_write"}
        /\ failures < MaxFailures
        /\ failures' = failures + 1
        /\ IF tk.act = "match"
           THEN /\ tasks' = [tasks EXCEPT ![t] =
                        [tk EXCEPT !.pc = "rollback", !.cnt = NoCounts,
                                   !.rb1 = "pending", !.rb2 = "pending"]]
                /\ sent' = {}
           ELSE /\ tasks' = [tasks EXCEPT ![t] = IdleTask]
                /\ sent' = Emit({}, tk.sock, ErrorEvent)
        /\ UNCHANGED <<searches, chats, statsCache, cacheFresh, updatingStats, pendingUpdates,
                       bjobs, userSockets, cancels, extVars>>
        /\ lastCalls' = Track(t)

StatsFails(t) ==
    LET tk == tasks[t]
    IN  /\ tk.pc \in {"st_findone", "st_counts", "st_write"}
        /\ failures < MaxFailures
        /\ failures' = failures + 1
        /\ updatingStats' = FALSE
        /\ IF tk.act = "match"
           THEN /\ tasks' = [tasks EXCEPT ![t] =
                        [tk EXCEPT !.pc = "rollback", !.cnt = NoCounts,
                                   !.rb1 = "pending", !.rb2 = "pending"]]
                /\ sent' = {}
           ELSE /\ tasks' = [tasks EXCEPT ![t] = IdleTask]
                /\ sent' = Emit({}, tk.sock, ErrorEvent)
        /\ UNCHANGED <<searches, chats, statsCache, cacheFresh, pendingUpdates, bjobs,
                       userSockets, cancels, extVars>>
        /\ lastCalls' = Track(t)

\* Concurrent handlers of u1 and u2 on a Store whose writes succeed and
\* whose reads for the statistics may fail.
NextStatFail ==
    \/ \E t \in Tasks, s \in {"s1", "s3"}, c \in {CriteriaA, CriteriaB} :
            CanInsert(MaxSearches) /\ CallStartSearch(t, s, c)
    \/ \E t \in Tasks : CreateSearch(t)
    \/ \E t \in Tasks : FindAndSelect(t)
    \/ \E t \in Tasks : CreateChat(t)
    \/ \E t \in Tasks : UpdateSearch1(t, TRUE)
    \/ \E t \in Tasks : UpdateSearch2(t, TRUE)
    \/ \E t \in Tasks : Rollback1(t, TRUE)
    \/ \E t \in Tasks : Rollback2(t, TRUE)
    \/ \E t \in Tasks : StatsFindOne(t)
    \/ \E t \in Tasks : StatsCounts(t)
    \/ \E t \in Tasks : StatsWrite(t)
    \/ \E t \in Tasks : StatsFails(t)
    \/ \E t \in Tasks, s \in {"s1", "s3"} : CanCancel(MaxCancels) /\ CallCancelSearch(t, s)
    \/ Tick
    \/ \E i \in 1 .. MaxDeferred : BroadcastStart(i)
    \/ \E i \in 1 .. MaxDeferred : BroadcastCounts(i)
    \/ \E i \in 1 .. MaxDeferred : BroadcastWrite(i)

SpecStatFail == Init /\ [][NextStatFail]_allVars

\* --------------------------------------------------------- CircuitBreaker
\* The breaker of the search handlers, with guarded operations that may be
\* in flight together and complete in any order.  inflight counts the
\* operations invoked and not yet settled; last is what the latest call of
\* execute, or the latest settling operation, did.
RESET_TIMEOUT == 60000
HALF_OPEN_MAX_ATTEMPTS == 2
BreakerTickMs == 30000
MaxBreakerClock == 180000
MaxInFlight == 2

\* A breaker that asks for a reset whatever time has passed.
ShouldAttemptResetAlways(now, lastFailureTime) == TRUE

\* Date.now() - this.lastFailureTime >= this.options.resetTimeout
ShouldAttemptReset(now, lastFailureTime) == now - lastFailureTime >= RESET_TIMEOUT

\* A handleSuccess that closes the breaker from every state.
HandleSuccessFromAnyState(b) ==
    IF b.halfOpenAttempts + 1 >= HALF_OPEN_MAX_ATTEMPTS
    THEN [b EXCEPT !.state = "CLOSED", !.failures = 0, !.halfOpenAttempts = @ + 1]
    ELSE [b EXCEPT !.halfOpenAttempts = @ + 1]

HandleSuccess(b) ==
    IF b.state = "HALF_OPEN"
    THEN IF b.halfOpenAttempts + 1 >= HALF_OPEN_MAX_ATTEMPTS
         THEN [b EXCEPT !.state = "CLOSED", !.failures = 0, !.halfOpenAttempts = @ + 1]
         ELSE [b EXCEPT !.halfOpenAttempts = @ + 1]
    ELSE b

HandleFailure(b, now) ==
    LET counted == [b EXCEPT !.failures = @ + 1, !.lastFailureTime = now]
    IN  IF \/ b.state = "CLOSED" /\ counted.failures >= SEARCH_FAILURE_THRESHOLD
           \/ b.state = "HALF_OPEN"
        THEN [counted EXCEPT !.state = "OPEN"]
        ELSE counted

breakerFrame == <<vars, statsExt, rooms, userRooms, graceTimers, pendingSearchCancellations,
                  lookups, drops, lostAt, heldUnion, chatLog, chatFailures, ratings,
                  userRating, rateOps, dupKeyError, searchFailures, probe, fullAge, asyncVars>>

\* execute(operation, fallback) up to the invocation of the operation.
Execute(withFallback) ==
    /\ IF breaker.state = "OPEN" /\ ~ShouldAttemptReset(clock, breaker.lastFailureTime)
       THEN breaker' = [breaker EXCEPT !.last = IF withFallback THEN "fallback" ELSE "throw"]
       ELSE /\ breaker.inflight < MaxInFlight
            /\ breaker' = [breaker EXCEPT
                    !.state = IF @ = "OPEN" THEN "HALF_OPEN" ELSE @,
                    !.halfOpenAttempts = IF breaker.state = "OPEN" THEN 0 ELSE @,
                    !.inflight = @ + 1,
                    !.last = "invoke"]
    /\ UNCHANGED <<breakerFrame, clock>>

\* A guarded operation fulfils.
OperationSucceeds ==
    /\ breaker.inflight > 0
    /\ breaker' = [HandleSuccess(breaker) EXCEPT !.inflight = @ - 1, !.last = "success"]
    /\ UNCHANGED <<breakerFrame, clock>>

\* A guarded operation rejects.
OperationFails ==
    /\ breaker.inflight > 0
    /\ breaker' = [HandleFailure(breaker, clock) EXCEPT !.inflight = @ - 1, !.last = "failure"]
    /\ UNCHANGED <<breakerFrame, clock>>

BreakerTick ==
    /\ clock < MaxBreakerClock
    /\ clock' = clock + BreakerTickMs
    /\ UNCHANGED <<breakerFrame, breaker>>

NextBreaker ==
    \/ \E withFallback \in BOOLEAN : Execute(withFallback)
    \/ OperationSucceeds
    \/ OperationFails
    \/ BreakerTick

SpecBreaker == Init /\ [][NextBreaker]_allVars

\* ------------------------------------------------------- expiry of searches
\* The only expiry in the code is the TTL index on createdAt: the Store
\* removes a Search document, whatever its status, once it is
\* EXPIRE_AFTER_MS old.  A removed document leaves a tombstone here so that
\* the ids of the others stay what they were; no query finds it.
EXPIRE_AFTER_MS == 1800000
ExpiryTickMs == 600000
MaxExpiryClock == 2400000
MaxExpiryCancels == 2

Tombstone == [NewSearch("u1", CriteriaA) EXCEPT !.userId = "none", !.telegramId = "none",
                                               !.status = "removed"]

\* createdAt of the records of InitExpiry, in ms before the run begins.
CreatedAt == <<-1200000, -1200000, -600000, 0>>

ExpiryTick ==
    /\ clock < MaxExpiryClock
    /\ clock' = clock + ExpiryTickMs
    /\ sent' = {}
    /\ UNCHANGED <<vars_but_sent, statsExt, restVars, rooms, userRooms, graceTimers,
                   pendingSearchCancellations, lookups, drops, lostAt, heldUnion>>

\* The TTL monitor of the Store deletes a document that is old enough.
TtlRemove(i) ==
    /\ i \in 1 .. Len(searches)
    /\ searches[i] # Tombstone
    /\ clock - CreatedAt[i] >= EXPIRE_AFTER_MS
    /\ searches' = [searches EXCEPT ![i] = Tombstone]
    /\ sent' = {}
    /\ UNCHANGED <<chats, statsCache, cacheFresh, updatingStats, pendingUpdates, bjobs,
                   userSockets, tasks, failures, cancels, lastCalls, extVars>>

\* u1 and u2 were paired in chat 1 twenty minutes ago, u3 started and
\* cancelled a search ten minutes ago and u1 has just begun a new search.
InitExpiry ==
    /\ searches = <<SetMatched(<<NewSearch("u1", CriteriaA), NewSearch("u2", CriteriaB)>>,
                               1, 2, 1)[1],
                    SetMatched(<<NewSearch("u1", CriteriaA), NewSearch("u2", CriteriaB)>>,
                               2, 1, 1)[2],
                    [NewSearch("u3", CriteriaD) EXCEPT !.status = "cancelled"],
                    NewSearch("u1", CriteriaA)>>
    /\ chats = <<[participants |-> <<"u1", "u2">>, type |-> "anonymous", isActive |-> TRUE]>>
    /\ statsCache = NoCache
    /\ cacheFresh = FALSE
    /\ updatingStats = FALSE
    /\ pendingUpdates = FALSE
    /\ bjobs = << >>
    /\ userSockets = [u \in Users |-> {s \in SocketIds : SocketUser[s] = u}]
    /\ sent = {}
    /\ tasks = [t \in Tasks |-> IdleTask]
    /\ failures = 0
    /\ cancels = 0
    /\ lastCalls = NotTracking
    /\ InitExt

NextExpiry ==
    \/ ExpiryTick
    \/ \E i \in 1 .. 4 : TtlRemove(i)
    \/ \E t \in Tasks, s \in {"s1", "s4"} : CanCancel(MaxExpiryCancels) /\ CallCancelSearch(t, s)
    \/ \E t \in Tasks : StatsFindOne(t)
    \/ \E t \in Tasks : StatsCounts(t)
    \/ \E t \in Tasks : StatsWrite(t)
    \/ Tick

SpecExpiry == InitExpiry /\ [][NextExpiry]_allVars

\* ------------------------------------------- findMatches on chosen records
\* findMatches and selectBestMatch applied to a Store of three records: the
\* record S of u1 that startSearch has just created, and two records made
\* from criteria other clients sent earlier (the second one older than the
\* third).  Locations are metres along one meridian.
GeoChoices == {<<FALSE, NoLocation>>, <<TRUE, NoLocation>>, <<TRUE, 0>>,
               <<TRUE, 35000>>, <<TRUE, 45000>>}

ProbeS ==
    {NewSearch("u1",
        [gender |-> "male", age |-> 25, rating |-> 0, desiredGender |-> dg,
         desiredAgeMin |-> 20, desiredAgeMax |-> 30, minAcceptableRating |-> mr,
         useGeolocation |-> geo[1], location |-> geo[2], maxDistance |-> md]) :
        dg \in {{"any"}, {"female"}}, mr \in {-1, 3},
        geo \in {<<FALSE, NoLocation>>, <<TRUE, NoLocation>>, <<TRUE, 0>>},
        md \in {0, 40, 50}}

ProbeP1 ==
    {[NewSearch(u,
        [gender |-> g, age |-> a, rating |-> r, desiredGender |-> dg,
         desiredAgeMin |-> 18, desiredAgeMax |-> 100, minAcceptableRating |-> -1,
         useGeolocation |-> geo[1], location |-> geo[2], maxDistance |-> 0])
      EXCEPT !.status = st] :
        u \in {"u1", "u2"}, g \in {"male", "female"}, a \in {26, 40}, r \in {0, 4},
        dg \in {{"any"}, {"female"}}, geo \in GeoChoices,
        st \in {"searching", "cancelled"}}

ProbeP2 ==
    {NewSearch("u3",
        [gender |-> "female", age |-> 26, rating |-> r, desiredGender |-> {"male"},
         desiredAgeMin |-> 18, desiredAgeMax |-> 100, minAcceptableRating |-> -1,
         useGeolocation |-> geo[1], location |-> geo[2], maxDistance |-> 0]) :
        r \in {0, 4}, geo \in GeoChoices \ {<<TRUE, 0>>}}

probeFrame == <<chats, statsCache, cacheFresh, updatingStats, pendingUpdates, bjobs,
                userSockets, tasks, failures, cancels, lastCalls, statsExt, hubVars,
                chatLog, chatFailures, ratings, userRating, rateOps, dupKeyError,
                searchFailures, breaker, fullAge, asyncVars>>

InitMatch ==
    /\ searches \in {<<S, P1, P2>> : S \in ProbeS, P1 \in ProbeP1, P2 \in ProbeP2}
    /\ chats = << >>
    /\ statsCache = NoCache
    /\ cacheFresh = FALSE
    /\ updatingStats = FALSE
    /\ pendingUpdates = FALSE
    /\ bjobs = << >>
    /\ userSockets = [u \in Users |-> {s \in SocketIds : SocketUser[s] = u}]
    /\ sent = {}
    /\ tasks = [t \in Tasks |-> IdleTask]
    /\ failures = 0
    /\ cancels = 0
    /\ lastCalls = NotTracking
    /\ InitExt

\* const matches = await this.findMatches(search)
ProbeFind ==
    /\ probe.phase = "none"
    /\ probe' = [probe EXCEPT !.phase = "found",
                              !.matches = FindMatches(searches[1], searches)]
    /\ sent' = {}
    /\ UNCHANGED <<searches, probeFrame>>

\* const bestMatch = this.selectBestMatch(search, matches)
ProbeSelect ==
    /\ probe.phase = "found"
    /\ probe.matches # << >>
    /\ probe' = [probe EXCEPT !.phase = "selected",
                              !.best = SelectBestMatch(searches[1], probe.matches, searches)]
    /\ sent' = {}
    /\ UNCHANGED <<searches, probeFrame>>

NextMatch ==
    \/ ProbeFind
    \/ ProbeSelect

SpecMatch == InitMatch /\ [][NextMatch]_allVars

\* ------------------------------------------------ the age of the snapshot
\* One client after another, each handler running to its end before time
\* moves on: search:start without a candidate, search:cancel and
\* search:subscribe_stats, with the time since the cache was stamped
\* (cacheAge) and since it was last recomputed from the Store (fullAge).
TtlTickMs == 3000
MaxFullAge == 9000
MaxTtlSearches == 3

ttlFrame == <<chats, updatingStats, pendingUpdates, bjobs, userSockets, tasks, failures,
              cancels, lastCalls, debounceTimeout, sinceEvent, burstCasts, userRooms,
              graceTimers, pendingSearchCancellations, lookups, clock, drops, lostAt,
              heldUnion, chatLog, chatFailures, ratings, userRating, rateOps, dupKeyError,
              searchFailures, breaker, probe, asyncVars>>

\* updateAndBroadcastStats(action, u) on the Store recs, from its test of
\* the cache to its end.
UpdateStatsNow(action, u, recs) ==
    IF CacheUsable(statsCache, cacheFresh)
    THEN IF GenderOfUser(recs, u) # "none"
         THEN /\ statsCache' = ApplyDelta(statsCache, action, GenderOfUser(recs, u))
              /\ cacheAge' = 0
              /\ UNCHANGED <<cacheFresh, fullAge>>
         ELSE UNCHANGED <<statsCache, cacheFresh, cacheAge, fullAge>>
    ELSE /\ statsCache' = FullStats(ReadCounts(recs), recs)
         /\ cacheFresh' = TRUE
         /\ cacheAge' = 0
         /\ fullAge' = 0

TtlStartSearch(s, c) ==
    LET u == SocketUser[s]
        recs == Append(CancelSearching(searches, u), NewSearch(u, c))
    IN  /\ s \in userSockets[u]
        /\ c \in CriteriaOf[u]
        /\ Len(searches) < MaxTtlSearches
        /\ FindMatches(recs[Len(recs)], recs) = << >>
        /\ searches' = recs
        /\ rooms' = [rooms EXCEPT ![s] = @ \cup {SearchRoom(u)}]
        /\ UpdateStatsNow("start", u, recs)
        /\ sent' = Emit({}, s, StatusEvent("searching"))
        /\ UNCHANGED ttlFrame

TtlCancelSearch(s) ==
    LET u == SocketUser[s]
        hit == \E k \in SearchIds(searches) : IsSearchingOf(u, searches[k])
    IN  /\ s \in userSockets[u]
        /\ searches' = CancelSearching(searches, u)
        /\ rooms' = [rooms EXCEPT ![s] = IF hit THEN @ \ {SearchRoom(u)} ELSE @]
        /\ UpdateStatsNow("cancel", u, searches')
        /\ sent' = IF hit THEN Emit({}, s, StatusEvent("cancelled")) ELSE {}
        /\ UNCHANGED ttlFrame

\* search:subscribe_stats: getSearchStats answers from a usable cache or
\* recomputes; the handler then counts the caller's own search into the
\* object it got, which is the cache's, and emits it to the caller.
TtlSubscribeStats(s) ==
    LET u == SocketUser[s]
        usable == CacheUsable(statsCache, cacheFresh)
        stats == IF usable THEN statsCache
                 ELSE FullStats(ReadCounts(searches), searches)
        own == FirstId({k \in SearchIds(searches) : IsSearchingOf(u, searches[k])})
        counted == IF own = 0 THEN stats
                   ELSE [stats EXCEPT !.t = @ + 1,
                                      !.m = IF searches[own].gender = "male" THEN @ + 1 ELSE @,
                                      !.f = IF searches[own].gender = "female" THEN @ + 1 ELSE @]
    IN  /\ s \in userSockets[u]
        \* a bound of the run: the cached total stays within MaxTtlSearches
        /\ counted.t <= MaxTtlSearches
        /\ rooms' = [rooms EXCEPT ![s] = @ \cup {StatsRoom}]
        /\ statsCache' = counted
        /\ cacheFresh' = TRUE
        /\ cacheAge' = IF usable THEN cacheAge ELSE 0
        /\ fullAge' = IF usable THEN fullAge ELSE 0
        /\ sent' = {<<s, StatsEvent(counted)>>}
        /\ UNCHANGED <<searches, ttlFrame>>

TtlTick ==
    /\ cacheAge' = Min(cacheAge + TtlTickMs, CACHE_TTL)
    /\ fullAge' = Min(fullAge + TtlTickMs, MaxFullAge)
    /\ cacheFresh' = (statsCache # NoCache /\ cacheAge' < CACHE_TTL)
    /\ sent' = {}
    /\ UNCHANGED <<searches, statsCache, rooms, ttlFrame>>

NextTtl ==
    \/ \E s \in {"s1", "s4"}, c \in {CriteriaA, CriteriaD} : TtlStartSearch(s, c)
    \/ \E s \in {"s1", "s4"} : TtlCancelSearch(s)
    \/ \E s \in {"s1", "s3"} : TtlSubscribeStats(s)
    \/ TtlTick

SpecTtl == Init /\ [][NextTtl]_allVars

\* ------------------------------------------------ ChatService in flight
\* sendMessage, markAsRead and endChat as the calls they are: findById
\* answers with the document, the method changes its copy and save() sends
\* what mongoose recorded of the change, which the Store applies later;
\* the emit to the room follows the answer of save().  messages.push is
\* sent as $push and counts the version key up; an array that was assigned
\* is sent whole, for the version that was read only; the fields endChat
\* sets are sent as they are.  Each message carries the time of its
\* handler as timestamp.
MaxTalkOps == 3
MaxTalkClock == 2
TalkContents == <<"m1", "m2", "m3">>

NoTalkMessage == [sender |-> "none", content |-> "", isRead |-> FALSE, timestamp |-> 0]

\* updateOne({_id, __v: version read}, ...) finds its document.
VersionIgnored(stored, read) == TRUE
VersionMatches(stored, read) == stored = read

talkFrame == <<searches, statsCache, cacheFresh, updatingStats, pendingUpdates, bjobs,
               userSockets, tasks, failures, cancels, lastCalls, statsExt, rooms,
               userRooms, graceTimers, pendingSearchCancellations, lookups, drops,
               lostAt, heldUnion, ratings, userRating, rateOps, dupKeyError,
               searchFailures, breaker, probe, fullAge, roomTimers, directory>>

TalkOp(kind, s, c, pc) ==
    [kind |-> kind, sock |-> s, chat |-> c, pc |-> pc, msg |-> NoTalkMessage,
     snap |-> << >>, dirty |-> FALSE, version |-> 0, pos |-> 0]

\* chat:message up to the call of save().
SendFind(s, c) ==
    LET u == SocketUser[s]
        msg == [sender |-> u, content |-> TalkContents[Len(chatOps) + 1],
                isRead |-> FALSE, timestamp |-> clock]
    IN  /\ s \in userSockets[u]
        /\ Len(chatOps) < MaxTalkOps
        /\ UNCHANGED <<chats, chatLog, clock, talkFrame>>
        /\ IF chatFailures >= CHAT_FAILURE_THRESHOLD
           THEN /\ sent' = {<<s, ChatError("Message queued for delivery due to service degradation")>>}
                /\ UNCHANGED <<chatOps, chatFailures>>
           ELSE IF ChatExists(c) /\ IsParticipant(u, c)
           THEN /\ chatOps' = Append(chatOps, [TalkOp("message", s, c, "save") EXCEPT !.msg = msg])
                /\ sent' = {}
                /\ UNCHANGED chatFailures
           ELSE /\ chatFailures' = chatFailures + 1
                /\ sent' = {<<s, ChatError("Message queued for delivery due to service degradation")>>}
                /\ UNCHANGED chatOps

\* The Store applies the update of a sendMessage.
SendSave(i) ==
    LET op == chatOps[i]
        log == LogOf(op.chat)
    IN  /\ i \in 1 .. Len(chatOps)
        /\ op.kind = "message" /\ op.pc = "save"
        /\ chatLog' = SetLog(op.chat, [log EXCEPT !.messages = Append(@, op.msg),
                                                  !.lastMessage = op.msg,
                                                  !.version = @ + 1])
        /\ chatOps' = [chatOps EXCEPT ![i].pc = "saved", ![i].pos = Len(log.messages) + 1]
        /\ sent' = {}
        /\ UNCHANGED <<chats, chatFailures, clock, talkFrame>>

\* chat:read up to the call of save(); ts is the timestamp of the event.
ReadFind(s, c, ts) ==
    LET u == SocketUser[s]
        log == LogOf(c)
        marked == [k \in 1 .. Len(log.messages) |->
                      IF log.messages[k].timestamp <= ts /\ log.messages[k].sender # u
                      THEN [log.messages[k] EXCEPT !.isRead = TRUE]
                      ELSE log.messages[k]]
    IN  /\ s \in userSockets[u]
        /\ Len(chatOps) < MaxTalkOps
        /\ UNCHANGED <<chats, chatLog, chatFailures, clock, talkFrame>>
        /\ IF ChatExists(c)
           THEN /\ chatOps' = Append(chatOps, [TalkOp("read", s, c, "save") EXCEPT
                                                  !.snap = marked,
                                                  !.dirty = (marked # log.messages),
                                                  !.version = log.version])
                /\ sent' = {}
           ELSE /\ sent' = {<<s, ChatError("Failed to mark messages as read")>>}
                /\ UNCHANGED chatOps

\* save() of a markAsRead: nothing is sent when no message was marked;
\* otherwise the Store applies the update, or finds no document of the
\* version that was read: save() rejects and the caller is told.
ReadSave(i) ==
    LET op == chatOps[i]
        log == LogOf(op.chat)
    IN  /\ i \in 1 .. Len(chatOps)
        /\ op.kind = "read" /\ op.pc = "save"
        /\ IF ~op.dirty
           THEN /\ chatOps' = [chatOps EXCEPT ![i].pc = "saved"]
                /\ sent' = {}
                /\ UNCHANGED chatLog
           ELSE IF VersionMatches(log.version, op.version)
           THEN /\ chatLog' = SetLog(op.chat, [log EXCEPT !.messages = op.snap,
                                                          !.version = @ + 1])
                /\ chatOps' = [chatOps EXCEPT ![i].pc = "saved"]
                /\ sent' = {}
           ELSE /\ chatOps' = [chatOps EXCEPT ![i].pc = "failed"]
                /\ sent' = {<<op.sock, ChatError("Failed to mark messages as read")>>}
                /\ UNCHANGED chatLog
        /\ UNCHANGED <<chats, chatFailures, clock, talkFrame>>

\* chat:end up to the call of save().
EndFind(s, c) ==
    LET u == SocketUser[s]
    IN  /\ s \in userSockets[u]
        /\ Len(chatOps) < MaxTalkOps
        /\ UNCHANGED <<chats, chatLog, chatFailures, clock, talkFrame>>
        /\ IF ChatExists(c) /\ IsParticipant(u, c) /\ chats[c].isActive
           THEN /\ chatOps' = Append(chatOps, TalkOp("end", s, c, "save"))
                /\ sent' = {}
           ELSE /\ sent' = {<<s, ChatError("Failed to end chat")>>}
                /\ UNCHANGED chatOps

\* The Store applies the update of an endChat.
EndSave(i) ==
    LET op == chatOps[i]
    IN  /\ i \in 1 .. Len(chatOps)
        /\ op.kind = "end" /\ op.pc = "save"
        /\ chats' = [chats EXCEPT ![op.chat].isActive = FALSE]
        /\ chatLog' = SetLog(op.chat, [LogOf(op.chat) EXCEPT
                                          !.endedAt = SomeDate,
                                          !.endedBy = SocketUser[op.sock]])
        /\ chatOps' = [chatOps EXCEPT ![i].pc = "saved"]
        /\ sent' = {}
        /\ UNCHANGED <<chatFailures, clock, talkFrame>>

\* save() has answered: the event goes to the room.
TalkEmit(i) ==
    LET op == chatOps[i]
        u == SocketUser[op.sock]
        e == CASE op.kind = "message" ->
                      ChatEvent("chat:message", op.chat, u, op.msg.content)
               [] op.kind = "read" -> ChatEvent("chat:read", op.chat, u, "")
               [] OTHER -> ChatEvent("chat:ended", op.chat, u, "")
    IN  /\ i \in 1 .. Len(chatOps)
        /\ op.pc = "saved"
        /\ chatOps' = [chatOps EXCEPT ![i].pc = "done"]
        /\ sent' = ToRoom(op.chat, e, {})
        /\ UNCHANGED <<chats, chatLog, chatFailures, clock, talkFrame>>

TalkTick ==
    /\ clock < MaxTalkClock
    /\ clock' = clock + 1
    /\ sent' = {}
    /\ UNCHANGED <<chats, chatLog, chatOps, chatFailures, talkFrame>>

\* u1 and u2, paired in chat 1, join its room and talk.
NextTalk ==
    \/ \E s \in {"s1", "s3"}, c \in HubChats : ChatJoin(s, c)
    \/ \E s \in {"s1", "s3"}, c \in HubChats : SendFind(s, c)
    \/ \E i \in 1 .. MaxTalkOps : SendSave(i)
    \/ \E s \in {"s1", "s3"}, c \in HubChats, ts \in 0 .. MaxTalkClock : ReadFind(s, c, ts)
    \/ \E i \in 1 .. MaxTalkOps : ReadSave(i)
    \/ \E s \in {"s1", "s3"}, c \in HubChats : EndFind(s, c)
    \/ \E i \in 1 .. MaxTalkOps : EndSave(i)
    \/ \E i \in 1 .. MaxTalkOps : TalkEmit(i)
    \/ TalkTick

SpecTalk == InitChat /\ [][NextTalk]_allVars

\* ------------------------------------------------- sessions over minutes
\* The connection and disconnect handlers in full, over minutes: with the
\* grace timer they keep User.isActive in the Store (findByIdAndUpdate,
\* not awaited) and arm the two-minute timer that forgets userRooms.  No
\* search is running, so getSearchStats counts an unchanging Store.
ROOM_RETENTION_MS == 120000
SessionTickMs == 60000
MaxSessionClock == 240000
MaxSessionDrops == 3

sessionFrame == <<searches, chats, updatingStats, pendingUpdates, bjobs, tasks, failures,
                  cancels, lastCalls, statsExt, chatLog, chatFailures, ratings,
                  userRating, rateOps, dupKeyError, searchFailures, breaker, probe,
                  fullAge, chatOps>>

ActivityWrite(u, active) == [user |-> u, isActive |-> active]

\* A timer that is due runs before the events that arrive after it.
NoRoomTimerDue ==
    \A i \in 1 .. Len(roomTimers) : roomTimers[i].st = "armed" => roomTimers[i].due > clock

\* io.on('connection')
SessionConnect(s, recovered) ==
    LET u == SocketUser[s]
        i == pendingSearchCancellations[u]
    IN  /\ s \notin userSockets[u]
        /\ NoRoomTimerDue
        /\ directory' = [directory EXCEPT !.writes = Append(@, ActivityWrite(u, TRUE))]
        /\ userSockets' = [userSockets EXCEPT ![u] = @ \cup {s}]
        /\ IF recovered
           THEN /\ rooms' = [rooms EXCEPT ![s] = @ \cup userRooms[u]]
                /\ graceTimers' = IF i # 0 /\ graceTimers[i].st = "armed"
                                  THEN [graceTimers EXCEPT ![i].st = "cleared"]
                                  ELSE graceTimers
                /\ pendingSearchCancellations' = [pendingSearchCancellations EXCEPT ![u] = 0]
                /\ sent' = {<<s, RecoveredEvent>>}
           ELSE /\ rooms' = [rooms EXCEPT ![s] = {}]
                /\ sent' = {}
                /\ UNCHANGED <<graceTimers, pendingSearchCancellations>>
        /\ UNCHANGED <<statsCache, cacheFresh, userRooms, roomTimers, lookups, clock,
                       drops, lostAt, heldUnion, sessionFrame>>

\* socket.on('disconnect'): when the user's last session goes, the active
\* search is looked up, isActive = false is written and the timer of
\* ROOM_RETENTION_MS is set; nothing ever clears that timer.
SessionDisconnect(s) ==
    LET u == SocketUser[s]
        last == userSockets[u] = {s}
    IN  /\ s \in userSockets[u]
        /\ NoRoomTimerDue
        /\ drops < MaxSessionDrops
        /\ drops' = drops + 1
        /\ userSockets' = [userSockets EXCEPT ![u] = @ \ {s}]
        /\ IF last
           THEN /\ lookups' = Append(lookups, u)
                /\ lostAt' = [lostAt EXCEPT ![u] = clock]
                /\ heldUnion' = [heldUnion EXCEPT ![u] = UNION {rooms[x] : x \in userSockets[u]}]
                /\ directory' = [directory EXCEPT
                                    !.writes = Append(@, ActivityWrite(u, FALSE))]
                /\ roomTimers' = Append(roomTimers,
                        [user |-> u, due |-> clock + ROOM_RETENTION_MS, st |-> "armed"])
           ELSE UNCHANGED <<lookups, lostAt, heldUnion, directory, roomTimers>>
        /\ sent' = {}
        /\ UNCHANGED <<statsCache, cacheFresh, rooms, userRooms, graceTimers,
                       pendingSearchCancellations, clock, sessionFrame>>

\* A findByIdAndUpdate of the handlers above is applied by the Store; the
\* calls are independent of one another, so any of those in flight may be
\* the next.  Its then() runs broadcastSearchStats.
ActivityWriteLands(i) ==
    LET w == directory.writes[i]
        stats == IF CacheUsable(statsCache, cacheFresh) THEN statsCache
                 ELSE FullStats(ReadCounts(searches), searches)
    IN  /\ i \in 1 .. Len(directory.writes)
        /\ directory' = [isActive |-> [directory.isActive EXCEPT ![w.user] = w.isActive],
                         writes |-> RemoveAt(directory.writes, i)]
        /\ statsCache' = stats
        /\ cacheFresh' = TRUE
        /\ sent' = EmitToStatsRoom({}, stats)
        /\ UNCHANGED <<userSockets, rooms, userRooms, graceTimers,
                       pendingSearchCancellations, roomTimers, lookups, clock, drops,
                       lostAt, heldUnion, sessionFrame>>

\* The two-minute timer of a disconnect fires.
RoomTimerFires(i) ==
    LET u == roomTimers[i].user
    IN  /\ i \in 1 .. Len(roomTimers)
        /\ roomTimers[i].st = "armed"
        /\ roomTimers[i].due <= clock
        /\ roomTimers' = [roomTimers EXCEPT ![i].st = "fired"]
        /\ userRooms' = IF userSockets[u] = {} THEN [userRooms EXCEPT ![u] = {}]
                        ELSE userRooms
        /\ sent' = {}
        /\ UNCHANGED <<statsCache, cacheFresh, userSockets, rooms, graceTimers,
                       pendingSearchCancellations, directory, lookups, clock, drops,
                       lostAt, heldUnion, sessionFrame>>

\* SessionTickMs pass: the Store has answered what was in flight and the
\* timers that were due have fired.
SessionTick ==
    /\ clock < MaxSessionClock
    /\ lookups = << >>
    /\ directory.writes = << >>
    /\ NoRoomTimerDue
    /\ clock' = clock + SessionTickMs
    /\ cacheFresh' = FALSE
    /\ sent' = {}
    /\ UNCHANGED <<statsCache, userSockets, rooms, userRooms, graceTimers,
                   pendingSearchCancellations, directory, roomTimers, lookups, drops,
                   lostAt, heldUnion, sessionFrame>>

\* The two sessions of u1 come and go and join the room of chat 1.
NextSession ==
    \/ \E s \in {"s1", "s2"}, recovered \in BOOLEAN : SessionConnect(s, recovered)
    \/ \E s \in {"s1", "s2"} : SessionDisconnect(s)
    \/ \E s \in {"s1", "s2"}, c \in HubChats : ChatJoin(s, c)
    \/ LookupReturns
    \/ \E i \in 1 .. 2 * MaxSessionDrops : ActivityWriteLands(i)
    \/ \E i \in 1 .. MaxSessionDrops : RoomTimerFires(i)
    \/ SessionTick

SpecSession == Init /\ [][NextSession]_allVars

\* ------------------------------------------------------------ properties
Terminal == {"matched", "cancelled", "expired"}
ChatIds == 1 .. Len(chats)
AllIdle == \A t \in Tasks : tasks[t].pc = "idle"
Counters(cache) == [t |-> cache.t, m |-> cache.m, f |-> cache.f]
MatchedSent(out) == {m \in out : m[2].ev = "search:matched"}

\* C1: in every reachable state every user has at most one SearchRecord
\* with status searching, also when two search:start of one user overlap.
AtMostOneSearchingPerUser ==
    \A u \in Users :
        Cardinality({i \in SearchIds(searches) : IsSearchingOf(u, searches[i])}) <= 1

\* C2: in every reachable state a record is matched iff its matchedWith is
\* populated, and then a record of the user it names is matched, names this
\* record's user and carries the same chatId.
MatchedIffPairedSameChat ==
    \A i \in SearchIds(searches) :
        LET r == searches[i]
        IN  /\ r.status = "matched" <=> r.matchedWith # NoMatch
            /\ r.matchedWith # NoMatch =>
                  \E j \in SearchIds(searches) :
                      /\ searches[j].userId = r.matchedWith.userId
                      /\ searches[j].status = "matched"
                      /\ searches[j].matchedWith.userId = r.userId
                      /\ searches[j].matchedWith.chatId = r.matchedWith.chatId

\* The records that carry chat c in matchedWith.
PairOf(c) == {i \in SearchIds(searches) : searches[i].matchedWith.chatId = c}

\* C3: when overlapping startSearch calls have all returned (and no Store
\* write failed), every ChatRecord belongs to one formed pair: exactly two
\* records carry it, they are matched and name each other; so racing
\* attempts leave no duplicate and no orphan ChatRecord.
ExactlyOnePairPerRace ==
    (AllIdle /\ failures = 0) =>
        \A c \in ChatIds :
            /\ Cardinality(PairOf(c)) = 2
            /\ \A i, j \in PairOf(c) :
                  i # j => /\ searches[i].status = "matched"
                           /\ searches[i].matchedWith.userId = searches[j].userId

\* C4: a record whose status is matched, cancelled or expired never changes
\* its status or its matchedWith again (stated for the steps of runs in
\* which no Store write has failed, so that no rollback is involved).
TerminalIsSink ==
    [][\A i \in SearchIds(searches) :
          (failures' = 0 /\ searches[i].status \in Terminal) =>
              /\ searches'[i].status = searches[i].status
              /\ searches'[i].matchedWith = searches[i].matchedWith]_vars

\* C5: when a pair creation has failed and its rollback is over, the
\* ChatRecord it created is gone and no record carries that chat in
\* matchedWith.
FailedMatchLeavesNothing ==
    [][\A t \in Tasks :
          (tasks[t].pc = "rollback" /\ tasks'[t].pc \in {"idle", "drain"}) =>
              /\ tasks[t].cid \notin 1 .. Len(chats')
              /\ \A i \in SearchIds(searches') :
                    searches'[i].matchedWith.chatId # tasks[t].cid]_vars

\* C6: a step emits search:matched only as the step in which the second of
\* a pair creation's two matched-updates is committed, the first one and the
\* ChatRecord having been committed before; the events go to every socket of
\* the chat's two participants and to no other socket, and each carries the
\* other participant's telegramId and the chat's id.
MatchedOnlyAfterCommit ==
    [][MatchedSent(sent') # {} =>
          \E t \in Tasks :
              LET tk == tasks[t]
                  c == tk.cid
              IN  /\ tk.pc = "update"
                  /\ {tk.upd1, tk.upd2} = {"ok", "pending"}
                  /\ failures' = failures
                  /\ c \in ChatIds
                  /\ chats[c].participants[1] # chats[c].participants[2]
                  /\ searches'[IF tk.upd1 = "pending" THEN tk.sid ELSE tk.bid]
                        .matchedWith.chatId = c
                  /\ {m[1] : m \in MatchedSent(sent')} =
                        userSockets[chats[c].participants[1]]
                            \cup userSockets[chats[c].participants[2]]
                  /\ \A m \in MatchedSent(sent') :
                        LET me == SocketUser[m[1]]
                            other == IF me = chats[c].participants[1]
                                     THEN chats[c].participants[2]
                                     ELSE chats[c].participants[1]
                        IN  /\ m[2].telegramId = TelegramIdOf[other]
                            /\ m[2].chatId = c]_vars

\* C6 witness: a pair that includes u1 was notified on both sockets of u1
\* and on the partner's socket.
MatchedSentToAllSessions ==
    /\ Cardinality(MatchedSent(sent)) = 3
    /\ {"s1", "s2"} \subseteq {m[1] : m \in MatchedSent(sent)}

\* S's own criteria accept P: gender, age range, minimum rating and, when S
\* uses geolocation, a geolocation-using P within S's maxDistance.
Accepts(S, P) ==
    /\ P.gender \in S.desiredGender \/ "any" \in S.desiredGender
    /\ S.desiredAgeMin <= P.age /\ P.age <= S.desiredAgeMax
    /\ (S.minAcceptableRating > -1 => P.rating >= S.minAcceptableRating)
    /\ (S.useGeolocation =>
            /\ P.useGeolocation
            /\ S.location # NoLocation /\ P.location # NoLocation
            /\ Abs(S.location - P.location) <= S.maxDistance * 1000)

\* <<i, j>>: records i and j carry the same chat, i being the record of
\* the chat's first participant, the user whose startSearch formed the pair.
FormedPairs ==
    {p \in SearchIds(searches) \X SearchIds(searches) :
        LET c == searches[p[1]].matchedWith.chatId
        IN  /\ p[1] # p[2]
            /\ c \in ChatIds
            /\ searches[p[2]].matchedWith.chatId = c
            /\ searches[p[1]].userId = chats[c].participants[1]}

LastTwo(op1, op2) ==
    /\ Len(lastCalls.done) = 2
    /\ lastCalls.done[1].op = op1
    /\ lastCalls.done[2].op = op2
    /\ lastCalls.done[1].user = lastCalls.done[2].user

HasSearching(recs, u) == \E i \in SearchIds(recs) : IsSearchingOf(u, recs[i])

\* C8: a cancelSearch of a user without a searching record modifies no
\* SearchRecord, and a second consecutive cancelSearch leaves the records
\* and the cached searching counters as the first call left them (stated for
\* a second call that finds the cache fresh, so that it recomputes nothing).
CancelIsIdempotent ==
    /\ \A k \in 1 .. Len(lastCalls.done) :
          LET call == lastCalls.done[k]
          IN  (call.op = "cancel" /\ ~HasSearching(call.preRecs, call.user)) =>
                  call.postRecs = call.preRecs
    /\ (LastTwo("cancel", "cancel") /\ ~lastCalls.done[2].full) =>
          /\ lastCalls.done[2].postRecs = lastCalls.done[1].postRecs
          /\ Counters(lastCalls.done[2].postCache) =
                 Counters(lastCalls.done[1].postCache)

\* C9: a cancelSearch of a user whose only live record is already matched
\* changes no record and no chat and returns that record; and the
\* matched-update that a pair creation issues for the partner it selected
\* never turns a cancelled record matched (stated for the steps of runs in
\* which no Store write has failed).
CancelRespectsMatch ==
    [][failures' = 0 =>
       /\ \A t \in Tasks :
            LET u == TaskUser(tasks'[t])
            IN  (/\ tasks[t].pc = "idle"
                 /\ tasks'[t].op = "cancel"
                 /\ ~HasSearching(searches, u)
                 /\ \E i \in SearchIds(searches) :
                        searches[i].userId = u /\ searches[i].status = "matched") =>
                    /\ searches' = searches
                    /\ chats' = chats
                    /\ tasks'[t].res # 0
       /\ \A t \in Tasks :
            LET i == tasks[t].bid
            IN  (/\ tasks[t].upd2 = "pending"
                 /\ tasks'[t].upd2 # "pending"
                 /\ searches[i].status = "cancelled") =>
                    searches'[i].status # "matched"]_vars

\* startSearch(U, C) that found no partner, directly followed by
\* cancelSearch(U), U having had no searching record and the cache holding
\* counters before the two calls.
StartThenCancel ==
    /\ LastTwo("start", "cancel")
    /\ ~lastCalls.done[1].paired
    /\ ~HasSearching(lastCalls.done[1].preRecs, lastCalls.done[1].user)
    /\ lastCalls.done[1].preCache # NoCache

\* The two calls left exactly one new record, of the user and cancelled, and
\* the cached searching counters at their values before the two calls.
OneCancelledAndCountersBack ==
    LET pre == lastCalls.done[1].preRecs
        post == lastCalls.done[2].postRecs
    IN  /\ Len(post) = Len(pre) + 1
        /\ SubSeq(post, 1, Len(pre)) = pre
        /\ post[Len(post)].userId = lastCalls.done[1].user
        /\ post[Len(post)].status = "cancelled"
        /\ Counters(lastCalls.done[2].postCache) =
               Counters(lastCalls.done[1].preCache)

OneBroadcastPerBurst == burstCasts <= 1

\* C12: the disconnect of a user's last session never cancels the user's
\* search while the user can still come back in time: whenever a
\* searchCancelTimeout cancels a record, its user has been without a session
\* for GRACE_MS or more.
AutoCancelStep(i) ==
    /\ i <= Len(graceTimers)
    /\ graceTimers[i].st = "armed"
    /\ graceTimers'[i].st = "fired"
    /\ searches' # searches
NoCancelWithinGrace ==
    [][\A i \in 1 .. MaxDrops :
            AutoCancelStep(i) => clock - lostAt[graceTimers[i].user] >= GRACE_MS]_allVars

\* C13: a search does not outlive its user's absence: a user who lost the
\* last session more than GRACE_MS ago and has not come back owns no
\* searching record once the server has nothing in flight.
AbandonedSearchCancelled ==
    \A u \in Users :
        (/\ userSockets[u] = {}
         /\ lostAt[u] >= 0
         /\ clock - lostAt[u] > GRACE_MS
         /\ lookups = << >>
         /\ \A t \in Tasks : tasks[t].pc = "idle")
        => ~\E k \in SearchIds(searches) : IsSearchingOf(u, searches[k])

\* C14: a session that recovers after its user had lost the last session
\* is joined to every room the user's sessions held just before that
\* disconnect: none is missing.
RecoveredConnect(s) ==
    /\ userSockets[SocketUser[s]] = {}
    /\ s \in userSockets'[SocketUser[s]]
    /\ <<s, RecoveredEvent>> \in sent'
NoRoomMissingAfterRecovery ==
    [][\A s \in SocketIds :
            RecoveredConnect(s) => heldUnion[SocketUser[s]] \subseteq rooms'[s]]_allVars

\* C15: no session of a user who is not a participant of a chat is a member
\* of the chat's room.
OnlyParticipantsInChatRoom ==
    \A s \in SocketIds, c \in 1 .. Len(chats) :
        ChatRoom(c) \in rooms[s] => IsParticipant(SocketUser[s], c)

\* C16: no step adds a message to a chat that is not active, changes its
\* lastMessage or sends chat:message to its room.
InactiveChatTakesNoMessage ==
    [][\A c \in 1 .. Len(chats) :
            ~chats[c].isActive =>
                /\ Len(LogOf(c).messages') = Len(LogOf(c).messages)
                /\ LogOf(c).lastMessage' = LogOf(c).lastMessage
                /\ ~\E m \in sent' : m[2].ev = "chat:message"]_allVars

\* C17: a chat document is inactive exactly when its endedAt is set, and
\* exactly then its endedBy is set.
InactiveIffEnded ==
    \A c \in 1 .. Len(chats) :
        ChatExists(c) =>
            /\ ~chats[c].isActive <=> LogOf(c).endedAt # NoDate
            /\ ~chats[c].isActive <=> LogOf(c).endedBy # "none"

\* C18: the ratings collection never holds two documents of one rater for
\* one chat, and a Rating.create that finds the pair already rated inserts
\* nothing and is answered with error to the caller's session.
UniquePairs(rs) ==
    \A i, j \in 1 .. Len(rs) :
        (rs[i].rater = rs[j].rater /\ rs[i].chat = rs[j].chat) => i = j
DuplicateCreateStep(i) ==
    /\ i <= Len(rateOps)
    /\ rateOps[i].pc = "create"
    /\ Rated(ratings, rateOps[i].doc)
    /\ rateOps' = RemoveAt(rateOps, i)
OneRatingPerRaterAndChat ==
    [][/\ UniquePairs(ratings')
       /\ \A i \in 1 .. MaxRateOps :
            DuplicateCreateStep(i) =>
                /\ ratings' = ratings
                /\ <<rateOps[i].sock, RateError>> \in sent']_allVars
\* Two submissions of one rater for one chat were in flight together and
\* Rating.create has turned one of them down.
DuplicateRejectedByIndex ==
    /\ dupKeyError
    /\ Len(ratings) = 1
    /\ \E s \in SocketIds : <<s, RateError>> \in sent

\* C19: with no chat:rate in flight, the stored rating of every user who has
\* ratings is the mean of their scores.
MeanOfScores ==
    rateOps = << >> =>
        \A u \in Users :
            CountScores(ratings, u) > 0 =>
                userRating[u][1] * CountScores(ratings, u)
                    = SumScores(ratings, u) * userRating[u][2]

\* C20: when Search.create turns down the criteria of a search:start, the
\* caller is answered with error, no record is inserted and the record of
\* the user that was searching when the event arrived is still searching.
RejectedStartChangesNothing ==
    [][\A t \in Tasks :
            (tasks[t].pc = "create" /\ tasks'[t].pc = "idle") =>
                /\ <<tasks[t].sock, ErrorEvent>> \in sent'
                /\ Len(searches') = Len(searches)
                /\ tasks[t].res # 0 => searches'[tasks[t].res].status = "searching"]_allVars

\* C21: a handler whose pair was committed (chat and both matched-updates)
\* and notified changes no search record afterwards, whatever happens to its
\* stats update.
CommittedPairSurvivesStatsFailure ==
    [][\A t \in Tasks :
            (/\ tasks[t].upd1 = "ok"
             /\ tasks[t].upd2 = "ok"
             /\ tasks'[t] # tasks[t]) => searches' = searches]_allVars

\* C22: in HALF_OPEN the success that brings the count of successes to
\* halfOpenMaxAttempts closes the breaker with failures = 0, a failure opens
\* it and restarts the timer, and the breaker becomes CLOSED only from
\* HALF_OPEN, whatever the order in which the operations settle.
HalfOpenTransitions ==
    [][/\ (OperationSucceeds /\ breaker.state = "HALF_OPEN") =>
            IF breaker.halfOpenAttempts + 1 >= HALF_OPEN_MAX_ATTEMPTS
            THEN breaker'.state = "CLOSED" /\ breaker'.failures = 0
            ELSE breaker'.state = "HALF_OPEN"
       /\ (OperationFails /\ breaker.state = "HALF_OPEN") =>
            breaker'.state = "OPEN" /\ breaker'.lastFailureTime = clock
       /\ (breaker'.state = "CLOSED" /\ breaker.state # "CLOSED") =>
            /\ breaker.state = "HALF_OPEN"
            /\ breaker'.halfOpenAttempts = HALF_OPEN_MAX_ATTEMPTS]_allVars
\* The breaker has opened, become HALF_OPEN after the timeout and closed
\* again after its trial operations succeeded.
ClosedAfterRecovery ==
    /\ breaker.state = "CLOSED"
    /\ breaker.failures = 0
    /\ breaker.halfOpenAttempts = HALF_OPEN_MAX_ATTEMPTS
    /\ breaker.last = "success"

\* C23: an execute that finds the breaker OPEN less than resetTimeout after
\* the last failure invokes nothing and runs the fallback (throws without
\* one); at or after resetTimeout it makes the breaker HALF_OPEN and invokes
\* the operation.
OpenBreakerShortCircuits ==
    [][\A withFallback \in BOOLEAN :
            (Execute(withFallback) /\ breaker.state = "OPEN") =>
                IF clock - breaker.lastFailureTime < RESET_TIMEOUT
                THEN /\ breaker'.inflight = breaker.inflight
                     /\ breaker'.state = "OPEN"
                     /\ breaker'.last = IF withFallback THEN "fallback" ELSE "throw"
                ELSE /\ breaker'.inflight = breaker.inflight + 1
                     /\ breaker'.state = "HALF_OPEN"
                     /\ breaker'.last = "invoke"]_allVars
\* The breaker is OPEN within the timeout and the latest execute ran the
\* fallback.
FallbackRanWhileOpen ==
    /\ breaker.state = "OPEN"
    /\ clock - breaker.lastFailureTime < RESET_TIMEOUT
    /\ breaker.last = "fallback"

\* C24: the step by which the Store acts on a record's age touches only a
\* record that is searching, leaves it with status expired and emits
\* search:expired to every connected session of its owner.
ExpiryMarksSearchingExpired ==
    [][\A i \in 1 .. Len(searches) :
            (clock - CreatedAt[i] >= EXPIRE_AFTER_MS /\ searches'[i] # searches[i]) =>
                /\ searches[i].status = "searching"
                /\ searches'[i] = [searches[i] EXCEPT !.status = "expired"]
                /\ \A s \in userSockets[searches[i].userId] :
                        \E e \in {x \in sent' : x[1] = s} : e[2].ev = "search:expired"]_allVars

\* C25: findMatches(S) returns exactly the records that satisfy the
\* candidate predicate; with S.useGeolocation a candidate uses geolocation
\* too, has a location, and lies within S.maxDistance km when S has one.
CandidatePredicate(S, P) ==
    /\ P.status = "searching"
    /\ P.userId # S.userId
    /\ P.gender \in DesiredSet(S)
    /\ (S.gender \in P.desiredGender \/ "any" \in P.desiredGender)
    /\ P.age >= S.desiredAgeMin /\ P.age <= S.desiredAgeMax
    /\ S.age >= P.desiredAgeMin /\ S.age <= P.desiredAgeMax
    /\ (S.minAcceptableRating > -1 => P.rating >= S.minAcceptableRating)
    /\ (S.useGeolocation =>
            /\ P.useGeolocation
            /\ P.location # NoLocation
            /\ (S.location # NoLocation =>
                    Distance(S.location, P.location) <= S.maxDistance * 1000))
FindMatchesIsCandidatePredicate ==
    probe.phase # "none" =>
        {probe.matches[k] : k \in 1 .. Len(probe.matches)}
            = {i \in 1 .. Len(searches) : CandidatePredicate(searches[1], searches[i])}

\* C26: the selected partner has the greatest total score, every total is
\* between 0 and 100 points, and no older candidate has the same total.
Candidates == {probe.matches[k] : k \in 1 .. Len(probe.matches)}
SelectsBestAndOldest ==
    probe.phase = "selected" =>
        /\ probe.best \in Candidates
        /\ \A i \in Candidates :
            /\ CalculateMatchScore(searches[1], searches[i]) \in 0 .. 100000
            /\ CalculateMatchScore(searches[1], searches[i])
                    <= CalculateMatchScore(searches[1], searches[probe.best])
            /\ CalculateMatchScore(searches[1], searches[i])
                    = CalculateMatchScore(searches[1], searches[probe.best])
                => probe.best <= i

\* C27: a stats update that cannot learn the gender of its user (the user
\* has no Search document) recomputes the cache from the Store, so that the
\* cached counters are those of the Store when the call returns.
UnknownGenderRecomputes ==
    \A k \in 1 .. Len(lastCalls.done) :
        LET d == lastCalls.done[k]
        IN  GenderOfUser(d.postRecs, d.user) = "none" =>
                [t |-> d.postCache.t, m |-> d.postCache.m, f |-> d.postCache.f]
                    = ReadCounts(d.postRecs)

\* C28: at most one handler is inside the body of the stats update,
\* updatingStats is set exactly while one is (also after an update failed),
\* and a call that finds updatingStats set leaves the cache alone, sets
\* pendingUpdates and enters no body.
InStatsBody(tk) == tk.pc \in {"st_findone", "st_counts", "st_write"}
CallsStats(t) ==
    /\ tasks[t].pc \in {"find", "update"}
    /\ tasks'[t].pc \in {"idle", "st_findone", "st_counts"}
StatsBodyIsExclusive ==
    [][/\ Cardinality({t \in Tasks : InStatsBody(tasks'[t])}) <= 1
       /\ updatingStats' <=> (\E t \in Tasks : InStatsBody(tasks'[t]))
       /\ (updatingStats /\ (cancels' # cancels \/ \E t \in Tasks : CallsStats(t))) =>
            /\ statsCache' = statsCache
            /\ cacheFresh' = cacheFresh
            /\ pendingUpdates'
            /\ \A t \in Tasks : InStatsBody(tasks'[t]) => InStatsBody(tasks[t])]_allVars
\* A call has found an update running and left its request pending, and an
\* earlier update has failed.
PendingBehindRunningUpdate ==
    /\ updatingStats
    /\ pendingUpdates
    /\ failures = 1
    /\ Cardinality({t \in Tasks : InStatsBody(tasks[t])}) = 1

\* C29: when a stats update ends, fulfilled or failed, with a request
\* pending, one more broadcast is queued and pendingUpdates is cleared.
PendingBecomesBroadcast ==
    [][\A t \in Tasks :
            (InStatsBody(tasks[t]) /\ ~InStatsBody(tasks'[t]) /\ pendingUpdates) =>
                /\ ~pendingUpdates'
                /\ Len(bjobs') = Len(bjobs) + 1]_allVars

\* C30: the snapshot search:subscribe_stats gets from getSearchStats was
\* recomputed from the Store at most CACHE_TTL ago.
SnapshotRecomputedWithinTtl ==
    [][(\E s \in SocketIds : TtlSubscribeStats(s)) => fullAge' <= CACHE_TTL]_allVars

\* C31: search:subscribe_stats leaves the cached snapshot as it was when
\* the cache answered, and the searching total it sends is at most the
\* number of searching records of the Store.
SubscribeLeavesCacheUnchanged ==
    [][\A s \in SocketIds :
            TtlSubscribeStats(s) =>
                /\ (CacheUsable(statsCache, cacheFresh) => statsCache' = statsCache)
                /\ \A e \in sent' : e[2].t <= ReadCounts(searches).t]_allVars

\* C32: a searchCancelTimeout that cancels a record was armed by the
\* disconnect that last left its user without a session, and GRACE_MS have
\* passed since then; a timer of an earlier disconnect cancels nothing,
\* also when every reconnect was a recovered connection.
CancelOnlyByLatestGraceTimer ==
    [][\A i \in 1 .. MaxDrops :
            AutoCancelStep(i) =>
                /\ graceTimers[i].due - GRACE_MS >= lostAt[graceTimers[i].user]
                /\ clock >= lostAt[graceTimers[i].user] + GRACE_MS]_allVars

\* C33: the two-minute timer deletes a user's room set only when the user
\* has had no session for ROOM_RETENTION_MS: not while a session exists,
\* and not on a timer of an earlier disconnect when the user has since come
\* back and gone again.
RoomSetDeleted(i) ==
    /\ i <= Len(roomTimers)
    /\ roomTimers[i].st = "armed"
    /\ roomTimers'[i].st = "fired"
    /\ userRooms[roomTimers[i].user] # {}
    /\ userRooms'[roomTimers[i].user] = {}
RoomSetKeptForTwoMinutes ==
    [][\A i \in 1 .. MaxSessionDrops :
            RoomSetDeleted(i) =>
                /\ userSockets[roomTimers[i].user] = {}
                /\ clock - lostAt[roomTimers[i].user] >= ROOM_RETENTION_MS]_allVars

\* C34: messages only grows: whatever chat:message and chat:read handlers
\* are in flight together, every step keeps each stored message in its
\* place with its sender, content and timestamp, never takes isRead back
\* from true to false, and every message whose save() has answered (its
\* chat:message was or is about to be emitted) is in messages.
SameMessage(m, n) ==
    m.sender = n.sender /\ m.content = n.content /\ m.timestamp = n.timestamp
MessagesAppendOnly ==
    [][\A c \in HubChats :
            /\ Len(LogOf(c).messages) <= Len(LogOf(c).messages')
            /\ \A k \in 1 .. Len(LogOf(c).messages) :
                    /\ SameMessage(LogOf(c).messages[k], LogOf(c).messages'[k])
                    /\ LogOf(c).messages[k].isRead => LogOf(c).messages'[k].isRead
            /\ \A i \in 1 .. Len(chatOps') :
                    (chatOps'[i].kind = "message" /\ chatOps'[i].chat = c
                        /\ chatOps'[i].pc \in {"saved", "done"}) =>
                    \E k \in 1 .. Len(LogOf(c).messages') :
                        SameMessage(LogOf(c).messages'[k], chatOps'[i].msg)]_allVars

\* A markAsRead whose save() was refused because a message was pushed after
\* its read, the message being emitted to the room.
ReadRefusedAfterPush ==
    \E i, j \in 1 .. Len(chatOps) :
        /\ chatOps[i].kind = "read" /\ chatOps[i].pc = "failed"
        /\ chatOps[j].kind = "message" /\ chatOps[j].pc = "done" /\ j > i
        /\ Len(LogOf(1).messages) = 2

\* C35: messages is ordered by timestamp and lastMessage is its last
\* element, also with two chat:message handlers in flight together, and
\* the chat:message events go to the room in the order of messages.
MessagesOrderedAndEmittedInOrder ==
    [][\A c \in HubChats :
            LET log == LogOf(c)'
            IN  /\ \A k \in 1 .. Len(log.messages) - 1 :
                        log.messages[k].timestamp <= log.messages[k + 1].timestamp
                /\ log.messages # << >> =>
                        SameMessage(log.lastMessage, log.messages[Len(log.messages)])
                /\ \A i, j \in 1 .. Len(chatOps) :
                        (/\ chatOps[i].kind = "message" /\ chatOps[j].kind = "message"
                         /\ chatOps[i].pc = "saved" /\ chatOps'[i].pc = "done"
                         /\ chatOps[j].pc = "saved") =>
                        chatOps[i].pos <= chatOps[j].pos]_allVars

\* C36: a chat is ended once: endedBy, once set, never changes, and of the
\* chat:end requests of the two participants only one gets as far as its
\* save() and its chat:ended.
EndsOf(c) ==
    {i \in 1 .. Len(chatOps) : /\ chatOps[i].kind = "end" /\ chatOps[i].chat = c
                               /\ chatOps[i].pc \in {"saved", "done"}}
ChatEndedOnce ==
    [][\A c \in HubChats :
            /\ LogOf(c).endedBy # "none" => LogOf(c)'.endedBy = LogOf(c).endedBy
            /\ \A i, j \in EndsOf(c)' :
                    SocketUser[chatOps'[i].sock] = SocketUser[chatOps'[j].sock]]_allVars

\* C37: a guarded operation that fulfils while the breaker is closed
\* resets the count of failures, so that only failures in a row add up to
\* the threshold.
SuccessInClosedResetsFailures ==
    [][(OperationSucceeds /\ breaker.state = "CLOSED") => breaker'.failures = 0]_allVars

\* C38: a chat:message that is rejected because the chat is not found or
\* the caller is no participant is not counted by the chat breaker and is
\* not answered with the hint of the fallback.
RejectionIsNoBreakerFailure ==
    [][\A s \in ChatSessions, c \in HubChats :
            (/\ ChatMessage(s, c, "hi")
             /\ chatFailures < CHAT_FAILURE_THRESHOLD
             /\ ~(ChatExists(c) /\ IsParticipant(SocketUser[s], c))) =>
                /\ chatFailures' = chatFailures
                /\ <<s, ChatError("Message queued for delivery due to service degradation")>>
                        \notin sent']_allVars

\* C39: handleSearchStart sends search:status{searching} to its session
\* only when the record its startSearch created is still searching as the
\* call returns: a call that paired the record returns matched.
StartReturns(t) ==
    /\ tasks[t].op = "start"
    /\ tasks[t].sid # 0
    /\ tasks[t].pc # "idle"
    /\ tasks'[t].pc = "idle"
    /\ <<tasks[t].sock, StatusEvent("searching")>> \in sent'
SearchingSentOnlyWhileSearching ==
    [][\A t \in Tasks :
            StartReturns(t) => searches'[tasks[t].sid].status = "searching"]_allVars

\* C40: once no write of the user directory is in flight, User.isActive
\* is true exactly for the users who have a session.
ActiveIffHasSession ==
    directory.writes = << >> =>
        \A u \in Users : directory.isActive[u] <=> userSockets[u] # {}

====
